---- MODULE Spec2Model ----
(***************************************************************************)
(* Model of the SciPaper-Hub batch pipeline (harvest, normalize, index)    *)
(* of the feed client's rate limiter, of the embedding cache client and of *)
(* the online query service.                                               *)
(*                                                                         *)
(* Strings that the code splits, matches or compares (identifiers, blob    *)
(* names) are sequences of tokens: one token per character wherever the    *)
(* code looks at characters, one token for a fixed fragment otherwise.     *)
(***************************************************************************)
EXTENDS Integers, Sequences, FiniteSets, TLC

VARIABLES
    bucket,     \* blob storage: blob name -> content
    h,          \* the harvest run: locals of harvest() and its position
    n,          \* outcome of the last normalize() call
    runs,       \* number of harvest invocations started
    clock,      \* time.time(), whole seconds
    last_request_ts, \* arxiv_client._last_request_ts
    feedlog,    \* send times of the outbound feed requests, latest first
    ix,         \* the index_snapshot run: locals, position and the remote index
    em,         \* a VertexEmbeddingClient: its _cache and the calls made on it
    sv,         \* the search service process: module globals and the request in hand
    cfg,        \* os.environ, the lru_cache of get_settings and the calls made on it
    fn          \* a call of an offline function: its arguments and what it returned

vars == <<bucket, h, n, runs, clock, last_request_ts, feedlog, ix, em, sv, cfg, fn>>

(***************************************************************************)
(* Bounds of the model.                                                    *)
(***************************************************************************)
MaxFeedLen == 3     \* entries the upstream holds for one query
MaxUpstream == 2    \* the same, for the runs of the stepwise harvest
MaxRuns == 2        \* harvest invocations in one behaviour
MaxClock == 14      \* last clock value explored
MaxRows == 4        \* rows of a canonical table handed to the indexer

(***************************************************************************)
(* Program constants. The page size, the batch size and the probe count    *)
(* are scaled down (2000 -> 2, 256 -> 3, 100 -> 2) so that full pages,     *)
(* several batches and a probe smaller than its batch all occur.           *)
(***************************************************************************)
MAX_RESULTS == 2
SLEEP_SECONDS == 3
RATE_LIMIT_SECONDS == 3
BATCH_SIZE == 3
PROBE_COUNT == 2

(***************************************************************************)
(* String helpers.                                                         *)
(***************************************************************************)
Digits == {"0", "1", "2", "3", "4", "5", "6", "7", "8", "9"}

DigitVal(c) ==
    CASE c = "0" -> 0 [] c = "1" -> 1 [] c = "2" -> 2 [] c = "3" -> 3
      [] c = "4" -> 4 [] c = "5" -> 5 [] c = "6" -> 6 [] c = "7" -> 7
      [] c = "8" -> 8 [] c = "9" -> 9

RECURSIVE ToInt(_)
ToInt(s) == IF s = <<>> THEN 0
            ELSE 10 * ToInt(SubSeq(s, 1, Len(s) - 1)) + DigitVal(s[Len(s)])

Min(a, b) == IF a < b THEN a ELSE b

StartsWith(s, p) == Len(p) <= Len(s) /\ SubSeq(s, 1, Len(p)) = p

\* str.rsplit(sep, maxsplit=1)[-1]
RsplitLast(s, sep) ==
    LET at == {i \in 1..Len(s) : s[i] = sep}
    IN  IF at = {} THEN s
        ELSE SubSeq(s, (CHOOSE i \in at : \A j \in at : j <= i) + 1, Len(s))

\* a split that cuts nothing off
SplitFirstMutant(s, sep) == s

\* str.split(sep)[0]
SplitFirst(s, sep) ==
    LET at == {i \in 1..Len(s) : s[i] = sep}
    IN  IF at = {} THEN s
        ELSE SubSeq(s, 1, (CHOOSE i \in at : \A j \in at : i <= j) - 1)

\* length of the run of digits that ends the string
TrailingDigits(s) ==
    LET ok == {k \in 0..Len(s) : \A i \in (Len(s) - k + 1)..Len(s) : s[i] \in Digits}
    IN  CHOOSE k \in ok : \A j \in ok : j <= k

Whitespace == {" ", "\n"}

RECURSIVE CollapseWs(_)
CollapseWs(s) ==
    IF s = <<>> THEN <<>>
    ELSE IF s[1] \in Whitespace
         THEN IF Len(s) >= 2 /\ s[2] \in Whitespace
              THEN CollapseWs(Tail(s))
              ELSE <<" ">> \o CollapseWs(Tail(s))
         ELSE <<s[1]>> \o CollapseWs(Tail(s))

RECURSIVE Strip(_)
Strip(s) ==
    IF s = <<>> THEN <<>>
    ELSE IF s[1] \in Whitespace THEN Strip(Tail(s))
    ELSE IF s[Len(s)] \in Whitespace THEN Strip(SubSeq(s, 1, Len(s) - 1))
    ELSE s

(***************************************************************************)
(* Feed entries. A raw entry is the <entry> element of a page: the text    *)
(* of its id, title, summary and published children (the empty sequence    *)
(* or string when the child is absent or empty) and its link elements.     *)
(***************************************************************************)
IdUrl(tail) == <<"http:", "/", "/", "arxiv.org", "/", "abs", "/">> \o tail

GoodDate == "2024-01-01T00:00:00Z"
LaterDate == "2024-01-02T00:00:00Z"
BadDate == "not-a-date"

AbsLink == [rel |-> "alternate", title |-> "", href |-> <<"http://arxiv.org/abs/1v2">>]
PdfLink == [rel |-> "related", title |-> "pdf", href |-> <<"http://arxiv.org/pdf/1v2">>]

RawEntry(id, title, summary, published, links) ==
    [id |-> id, title |-> title, summary |-> summary, published |-> published,
     links |-> links]

SampleEntries ==
    { RawEntry(IdUrl(<<"1", "v", "1">>), <<"T1">>, <<"x">>, GoodDate, <<>>),
      RawEntry(IdUrl(<<"1", "v", "2">>), <<"T2">>, <<" ", "x", "\n", " ", "y">>, LaterDate,
               <<AbsLink, PdfLink>>),
      RawEntry(IdUrl(<<"1", "v", "2">>), <<"T3">>, <<"z">>, GoodDate, <<>>),
      RawEntry(IdUrl(<<"1", "v", "1", "0">>), <<"T4">>, <<"x">>, GoodDate, <<>>),
      RawEntry(IdUrl(<<"2">>), <<"T5">>, <<"y">>, GoodDate, <<>>),
      RawEntry(<<>>, <<"T6">>, <<"x">>, GoodDate, <<>>),
      RawEntry(IdUrl(<<"3", "v", "1">>), <<"T7">>, <<" ">>, GoodDate, <<>>),
      RawEntry(IdUrl(<<"4", "v", "1">>), <<"T8">>, <<"x">>, BadDate, <<>>) }

\* the strings pandas.to_datetime(errors="coerce") turns into a timestamp
ParsesAsDatetime(s) == s \in {GoodDate, LaterDate}

RECURSIVE SeqsUpTo(_, _)
SeqsUpTo(S, k) ==
    IF k = 0 THEN {<<>>}
    ELSE LET shorter == SeqsUpTo(S, k - 1)
         IN  shorter \cup {Append(s, x) : s \in {t \in shorter : Len(t) = k - 1}, x \in S}

Feeds == SeqsUpTo(SampleEntries, MaxFeedLen)

\* arxiv_client._parse_version: re.search(r"v(\d+)$", arxiv_id)
ParseVersion(arxiv_id) ==
    LET k == TrailingDigits(arxiv_id)
        len == Len(arxiv_id)
    IN  IF k > 0 /\ len - k >= 1 /\ arxiv_id[len - k] = "v"
        THEN ToInt(SubSeq(arxiv_id, len - k + 1, len))
        ELSE 1

\* arxiv_client._parse_summary, and the same substitution on the title
ParseSummary(text) == CollapseWs(Strip(text))

\* the rel values for which rel.endswith("/abs"), rel.endswith("/pdf") hold
RelsEndingAbs == {"http://arxiv.org/abs"}
RelsEndingPdf == {"http://arxiv.org/pdf"}

\* arxiv_client._extract_links
RECURSIVE ExtractLinks(_, _)
ExtractLinks(links, acc) ==
    IF links = <<>> THEN acc
    ELSE LET l == links[1]
             next ==
                 IF l.rel = "" \/ l.href = <<>> THEN acc
                 ELSE IF l.rel \in RelsEndingAbs \/ l.rel = "alternate"
                      THEN [acc EXCEPT !.abs = l.href]
                 ELSE IF l.rel \in RelsEndingPdf \/ l.title = "pdf"
                      THEN [acc EXCEPT !.pdf = l.href]
                 ELSE acc
         IN  ExtractLinks(Tail(links), next)

\* parse_entry raises ValueError("Entry missing id field")
Malformed(entry) == entry.id = <<>>

\* arxiv_client.parse_entry, for an entry that has an id
ParseEntry(entry) ==
    LET arxiv_id == RsplitLast(entry.id, "/")
    IN  [arxiv_id |-> arxiv_id,
         base_id |-> SplitFirst(arxiv_id, "v"),
         version |-> ParseVersion(arxiv_id),
         title |-> ParseSummary(entry.title),
         abstract |-> ParseSummary(entry.summary),
         published_at |-> entry.published,
         links |-> ExtractLinks(entry.links, [abs |-> <<>>, pdf |-> <<>>])]

(***************************************************************************)
(* Blob storage. A blob name is a token sequence; list_blobs matches a     *)
(* name against a prefix character by character (snapshot ids are one      *)
(* token per character and contain no "/").                                *)
(***************************************************************************)
SnapshotIds == {<<"a">>, <<"a", "b">>}

\* f"page_{page:05d}.xml"
PageFile(page) ==
    CASE page = 0 -> "page_00000.xml" [] page = 1 -> "page_00001.xml"
      [] page = 2 -> "page_00002.xml" [] page = 3 -> "page_00003.xml"
      [] page = 4 -> "page_00004.xml" [] page = 5 -> "page_00005.xml"

PageFiles == {PageFile(p) : p \in 0..5}

\* f"harvest/{snapshot_id}"
BasePrefix(snapshot_id) == <<"harvest", "/">> \o snapshot_id

PageBlob(base_prefix, page) == base_prefix \o <<"/", PageFile(page)>>
ManifestBlob(base_prefix) == base_prefix \o <<"/", "manifest.json">>
DefaultOutputBlob(snapshot) == <<"normalized", "/">> \o snapshot \o <<"/", "records.parquet">>

XmlContent(entries) == [kind |-> "xml", entries |-> entries]
JsonContent(manifest) == [kind |-> "json", manifest |-> manifest]
ParquetContent(rows) == [kind |-> "parquet", rows |-> rows]

\* blob.upload_from_string: creates the blob or replaces its content
Upload(store, name, content) ==
    [b \in DOMAIN store \cup {name} |-> IF b = name THEN content ELSE store[b]]

\* GCSClient.list_blobs: the names that start with the prefix
ListBlobs(store, prefix) == {b \in DOMAIN store : StartsWith(b, prefix)}

\* blob_name.endswith(".xml")
EndsWithXml(name) == name # <<>> /\ name[Len(name)] \in PageFiles

\* code point order of the first characters of two tokens at one position
TokenRank(t) ==
    CASE t = "/" -> 47
      [] t = "a" -> 97
      [] t = "b" -> 98
      [] t = "harvest" -> 104
      [] t = "manifest.json" -> 109
      [] t = "normalized" -> 110
      [] t = "records.parquet" -> 114
      [] t = "page_00000.xml" -> 200 [] t = "page_00001.xml" -> 201
      [] t = "page_00002.xml" -> 202 [] t = "page_00003.xml" -> 203
      [] t = "page_00004.xml" -> 204 [] t = "page_00005.xml" -> 205

\* str.__lt__
RECURSIVE NameLess(_, _)
NameLess(x, y) ==
    IF y = <<>> THEN FALSE
    ELSE IF x = <<>> THEN TRUE
    ELSE IF x[1] = y[1] THEN NameLess(Tail(x), Tail(y))
    ELSE TokenRank(x[1]) < TokenRank(y[1])

\* sorted(names)
RECURSIVE Sorted(_)
Sorted(names) ==
    IF names = {} THEN <<>>
    ELSE LET first == CHOOSE x \in names : \A y \in names \ {x} : NameLess(x, y)
         IN  <<first>> \o Sorted(names \ {first})

(***************************************************************************)
(* normalize(snapshot, output_blob)                                        *)
(***************************************************************************)
NoBlob == <<>>      \* output_blob=None
CustomOutputBlob == <<"normalized", "/", "out.parquet">>

\* normalize._iter_entries: the raw entries of the .xml blobs under the
\* prefix, blobs in sorted order, entries in page order
RECURSIVE EntriesOf(_, _)
EntriesOf(store, names) ==
    IF names = <<>> THEN <<>>
    ELSE store[names[1]].entries \o EntriesOf(store, Tail(names))

XmlBlobs(store, prefix) == {b \in ListBlobs(store, prefix) : EndsWithXml(b)}

IterEntries(store, prefix) == EntriesOf(store, Sorted(XmlBlobs(store, prefix)))

\* the test of normalize.py line 51 when records already holds the base id
ReplacesMutant(entry, existing) == TRUE

Replaces(entry, existing) == entry.version > existing.version

\* one turn of the loop of normalize.py lines 48-52; records is the dict in
\* insertion order
DedupStep(records, entry) ==
    LET at == {i \in 1..Len(records) : records[i].base_id = entry.base_id}
    IN  IF at = {} THEN Append(records, entry)
        ELSE LET i == CHOOSE j \in at : TRUE
             IN  IF Replaces(entry, records[i])
                 THEN [records EXCEPT ![i] = entry]
                 ELSE records

RECURSIVE Dedup(_, _)
Dedup(entries, records) ==
    IF entries = <<>> THEN records
    ELSE Dedup(Tail(entries), DedupStep(records, ParseEntry(entries[1])))

\* the row built at normalize.py lines 57-73
MakeRow(record, ingest_snapshot) ==
    [arxiv_id |-> record.arxiv_id,
     base_id |-> record.base_id,
     version |-> record.version,
     title |-> record.title,
     abstract |-> record.abstract,
     published_at |-> record.published_at,
     link_abs |-> IF record.links.abs # <<>> THEN record.links.abs
                  ELSE <<"https://arxiv.org/abs/">> \o record.arxiv_id,
     link_pdf |-> IF record.links.pdf # <<>> THEN record.links.pdf
                  ELSE <<"https://arxiv.org/pdf/">> \o record.arxiv_id \o <<".pdf">>,
     ingest_snapshot |-> ingest_snapshot]

MakeRows(records, ingest_snapshot) ==
    [i \in 1..Len(records) |-> MakeRow(records[i], ingest_snapshot)]

\* schema.validate(df). A frame built from no rows has no columns, so the
\* required columns are missing. base_id and abstract are built with str()
\* and are never null, the empty string included; the published_at check
\* is to_datetime(errors="coerce").notna().all().
SchemaValid(rows) ==
    /\ rows # <<>>
    /\ \A i \in 1..Len(rows) : ParsesAsDatetime(rows[i].published_at)

Outcome(status, error, snapshot, output_blob, rows, read) ==
    [status |-> status, error |-> error, snapshot |-> snapshot,
     output_blob |-> output_blob, rows |-> rows, read |-> read]

NoOutcome == Outcome("none", "", <<>>, NoBlob, <<>>, {})

\* normalize(): what it returns or raises, the table it built and the blobs
\* it downloaded
NormalizeCall(store, snapshot, output_blob) ==
    LET manifest_blob == ManifestBlob(BasePrefix(snapshot))
    IN  IF manifest_blob \notin DOMAIN store
        THEN Outcome("raised", "NotFound", snapshot, NoBlob, <<>>, {})
        ELSE
        LET manifest == store[manifest_blob].manifest
            prefix == manifest.prefix
            pages == XmlBlobs(store, prefix)
            entries == IterEntries(store, prefix)
            read == {manifest_blob} \cup pages
        IN  IF \E i \in 1..Len(entries) : Malformed(entries[i])
            THEN Outcome("raised", "ValueError", snapshot, NoBlob, <<>>, read)
            ELSE
            LET rows == MakeRows(Dedup(entries, <<>>), manifest.snapshot)
                out == IF output_blob # NoBlob THEN output_blob
                       ELSE DefaultOutputBlob(snapshot)
            IN  IF SchemaValid(rows)
                THEN Outcome("ok", "", snapshot, out, rows, read)
                ELSE Outcome("raised", "SchemaError", snapshot, out, rows, read)

\* a normalize that uploads the table before validating it
NormalizeStoreMutant(store, r) ==
    IF r.status = "ok" \/ r.error = "SchemaError"
    THEN Upload(store, r.output_blob, ParquetContent(r.rows))
    ELSE store

\* normalize.py lines 93-97: the upload follows the validation
NormalizeStore(store, r) ==
    IF r.status = "ok"
    THEN Upload(store, r.output_blob, ParquetContent(r.rows))
    ELSE store

Normalize ==
    \E snapshot \in SnapshotIds, output_blob \in {NoBlob, CustomOutputBlob} :
        LET r == NormalizeCall(bucket, snapshot, output_blob)
        IN  /\ bucket' = NormalizeStore(bucket, r)
            /\ n' = r
            /\ UNCHANGED <<h, runs, clock, last_request_ts, feedlog, ix, em, sv, cfg, fn>>

(***************************************************************************)
(* harvest(snapshot=...). One step per turn of the pagination loop: the    *)
(* page request is where the run meets the upstream feed and where it can  *)
(* fail. The run's upstream result list is fixed when the run starts.      *)
(***************************************************************************)
StartClock == 10    \* the clock when the process starts

HarvestEntries ==
    { RawEntry(IdUrl(<<"1", "v", "1">>), <<"T1">>, <<"x">>, GoodDate, <<>>),
      RawEntry(IdUrl(<<"2">>), <<"T5">>, <<"y">>, GoodDate, <<>>) }

HarvestFeeds == SeqsUpTo(HarvestEntries, MaxUpstream)

\* the upstream's answer to start=..., max_results=MAX_RESULTS
PageOf(feed, start) == SubSeq(feed, start + 1, Min(Len(feed), start + MAX_RESULTS))

NoManifest == [snapshot |-> <<>>, pages |-> 0, count |-> 0, prefix |-> <<>>]

IdleLocals ==
    [pc |-> "idle", snapshot_id |-> <<>>, base_prefix |-> <<>>, feed |-> <<>>,
     start |-> 0, page |-> 0, total_entries |-> 0, uploaded |-> <<>>,
     requests |-> 0, manifest |-> NoManifest]

\* harvest.py lines 55-78, up to the loop
StartLocals(snapshot, feed) ==
    [IdleLocals EXCEPT !.pc = "paging", !.snapshot_id = snapshot,
                       !.base_prefix = BasePrefix(snapshot), !.feed = feed]

\* harvest.py lines 102-113
Manifest(hh) ==
    [snapshot |-> hh.snapshot_id, pages |-> hh.page + 1, count |-> hh.total_entries,
     prefix |-> hh.base_prefix]

\* a loop that only breaks on an empty page
LastPageMutant(xml) == Len(xml) = 0

\* entry_count < MAX_RESULTS or entry_count == 0: the loop breaks
LastPage(xml) == Len(xml) < MAX_RESULTS

\* harvest.py lines 87-99 and, when the loop breaks, 101-115: the locals
\* after one answered page request
AfterPageLocals(hh, xml) ==
    LET entry_count == Len(xml)
        asked == [hh EXCEPT !.requests = @ + 1]
        kept == IF entry_count = 0 THEN asked
                ELSE [asked EXCEPT
                        !.uploaded = Append(@, [name |-> PageBlob(hh.base_prefix, hh.page),
                                                count |-> entry_count]),
                        !.total_entries = @ + entry_count]
    IN  IF LastPage(xml)
        THEN [kept EXCEPT !.pc = "done", !.manifest = Manifest(kept)]
        ELSE [kept EXCEPT !.page = @ + 1, !.start = @ + MAX_RESULTS]

\* a loop that leaves without writing the manifest
AfterPageStoreMutant(store, hh, xml) ==
    IF Len(xml) = 0 THEN store
    ELSE Upload(store, PageBlob(hh.base_prefix, hh.page), XmlContent(xml))

\* the uploads of the same lines
AfterPageStore(store, hh, xml) ==
    LET paged == IF Len(xml) = 0 THEN store
                 ELSE Upload(store, PageBlob(hh.base_prefix, hh.page), XmlContent(xml))
    IN  IF LastPage(xml)
        THEN Upload(paged, ManifestBlob(hh.base_prefix),
                    JsonContent(Manifest(AfterPageLocals(hh, xml))))
        ELSE paged

\* a harvest that writes its manifest on the way out of a failed request
FailedRequestStoreMutant(store, hh) ==
    Upload(store, ManifestBlob(hh.base_prefix), JsonContent(Manifest(hh)))

\* harvest.py lines 83-86: check_output raises (CalledProcessError becomes
\* RuntimeError, TimeoutExpired propagates); nothing is uploaded
FailedRequestStore(store, hh) == store

FailedRequestLocals(hh) == [hh EXCEPT !.pc = "failed", !.requests = @ + 1]

\* the log of outbound feed requests after one more is sent at time t; the
\* two latest are kept
Sent(t, by) == <<[t |-> t, by |-> by]>> \o SubSeq(feedlog, 1, Min(1, Len(feedlog)))

HarvestStartWith(snapshots, feeds) ==
    /\ h.pc \in {"idle", "done", "failed"}
    /\ runs < MaxRuns
    /\ \E snapshot \in snapshots, feed \in feeds : h' = StartLocals(snapshot, feed)
    /\ runs' = runs + 1
    /\ UNCHANGED <<bucket, n, clock, last_request_ts, feedlog, ix, em, sv, cfg, fn>>

HarvestStart == HarvestStartWith(SnapshotIds, HarvestFeeds)

\* a page request that is answered; time.sleep(SLEEP_SECONDS) follows when
\* the loop goes on
HarvestPage ==
    /\ h.pc = "paging"
    /\ LET xml == PageOf(h.feed, h.start)
       IN  /\ h' = AfterPageLocals(h, xml)
           /\ bucket' = AfterPageStore(bucket, h, xml)
           /\ clock' = IF LastPage(xml) THEN clock ELSE clock + SLEEP_SECONDS
    /\ feedlog' = Sent(clock, "harvest")
    /\ UNCHANGED <<n, runs, last_request_ts, ix, em, sv, cfg, fn>>

\* a page request that fails
HarvestFail ==
    /\ h.pc = "paging"
    /\ h' = FailedRequestLocals(h)
    /\ bucket' = FailedRequestStore(bucket, h)
    /\ feedlog' = Sent(clock, "harvest")
    /\ UNCHANGED <<n, runs, clock, last_request_ts, ix, em, sv, cfg, fn>>

EmptyStore == [b \in {} |-> XmlContent(<<>>)]

\* index_snapshot has not been called; the remote index is empty
IndexIdle ==
    [pc |-> "idle", rows |-> <<>>, pos |-> 0, index |-> {}, batch_ids |-> {},
     probe_ids |-> {}, datapoints |-> {}, error |-> "", missing |-> 0, upserts |-> 0,
     calls |-> <<>>]

\* a VertexEmbeddingClient just constructed: empty _cache, no call made
EmbedFresh == [cache |-> <<>>, log |-> <<>>]

\* no request in hand; trace is the X-Cloud-Trace-Context header: <<>> when the
\* request has none, else the one value it carries
NoRequest == [url |-> <<>>, ip |-> "", trace |-> <<>>]

\* the service process as imported: both client globals None, nothing handled
ServiceDown ==
    [phase |-> "down", b_deployed_index_id |-> <<>>, client_A |-> FALSE,
     client_B |-> FALSE, pc |-> "idle", req |-> NoRequest, user_group |-> "",
     model_version |-> "", arxiv_id |-> <<>>, abstract |-> <<>>, vec |-> <<>>,
     neighbors |-> <<>>, stages |-> <<>>, logged |-> <<>>,
     feed_calls |-> 0, embed_calls |-> 0, index_calls |-> 0, handled |-> <<>>,
     git_sha |-> "", image_digest |-> "", client_to_use |-> "", queried |-> <<>>]

\* config.REQUIRED_VARS
RequiredVars ==
    {"PROJECT_ID", "REGION", "DATA_BUCKET", "VECTOR_COLLECTION_ID",
     "INDEX_ENDPOINT_ID", "DEPLOYED_INDEX_ID"}

NoSettings == <<>>

\* a process with none of the variables set and get_settings never called
ConfigFresh == [env |-> [v \in RequiredVars |-> "unset"], cache |-> NoSettings, log |-> <<>>]

\* no offline function called
NoCall == [op |-> "none", args |-> <<>>, result |-> <<>>]

Init ==
    /\ bucket = EmptyStore
    /\ h = IdleLocals
    /\ n = NoOutcome
    /\ runs = 0
    /\ clock = StartClock
    /\ last_request_ts = 0
    /\ feedlog = <<>>
    /\ ix = IndexIdle
    /\ em = EmbedFresh
    /\ sv = ServiceDown
    /\ cfg = ConfigFresh
    /\ fn = NoCall

Next == HarvestStart \/ HarvestPage \/ HarvestFail \/ Normalize

Spec == Init /\ [][Next]_vars

\* harvest invocations alone
NextHarvest == HarvestStart \/ HarvestPage \/ HarvestFail

SpecHarvest == Init /\ [][NextHarvest]_vars

(***************************************************************************)
(* normalize on its own: the bucket holds one snapshot as a completed      *)
(* harvest of an arbitrary upstream result list leaves it.                 *)
(***************************************************************************)
RECURSIVE Harvested(_, _)
Harvested(store, hh) ==
    IF hh.pc = "done" THEN store
    ELSE LET xml == PageOf(hh.feed, hh.start)
         IN  Harvested(AfterPageStore(store, hh, xml), AfterPageLocals(hh, xml))

InitNormalize ==
    /\ \E snapshot \in SnapshotIds, feed \in Feeds :
           bucket = Harvested(EmptyStore, StartLocals(snapshot, feed))
    /\ h = IdleLocals
    /\ n = NoOutcome
    /\ runs = 0
    /\ clock = StartClock
    /\ last_request_ts = 0
    /\ feedlog = <<>>
    /\ ix = IndexIdle
    /\ em = EmbedFresh
    /\ sv = ServiceDown
    /\ cfg = ConfigFresh
    /\ fn = NoCall

NextNormalize == Normalize

SpecNormalize == InitNormalize /\ [][NextNormalize]_vars

(***************************************************************************)
(* Claims about normalize.                                                 *)
(***************************************************************************)
Range(seq) == {seq[i] : i \in 1..Len(seq)}

\* the raw entries of the pages the last normalize call read
InputEntries == UNION {Range(bucket[b].entries) : b \in {x \in n.read : EndsWithXml(x)}}

WellFormed == {ParseEntry(e) : e \in {x \in InputEntries : ~Malformed(x)}}

MaxVersion(base_id) ==
    LET versions == {p.version : p \in {q \in WellFormed : q.base_id = base_id}}
    IN  CHOOSE v \in versions : \A w \in versions : w <= v

WrittenRows == bucket[n.output_blob].rows

\* C1: the table normalize writes has exactly one row per distinct base
\* identifier of the input pages, and each row carries the fields of an
\* input entry whose version is the highest seen for that base identifier.
C1_OneRowPerBaseIdMaxVersion ==
    n.status = "ok" =>
        /\ \A p \in WellFormed :
               Cardinality({i \in 1..Len(WrittenRows) :
                               WrittenRows[i].base_id = p.base_id}) = 1
        /\ \A i \in 1..Len(WrittenRows) :
               \E p \in WellFormed :
                   /\ p.base_id = WrittenRows[i].base_id
                   /\ p.version = MaxVersion(p.base_id)
                   /\ WrittenRows[i].version = p.version
                   /\ WrittenRows[i].arxiv_id = p.arxiv_id
                   /\ WrittenRows[i].title = p.title
                   /\ WrittenRows[i].abstract = p.abstract
                   /\ WrittenRows[i].published_at = p.published_at

\* a table written from two pages in which a lower version follows a
\* higher version of the same base identifier
C1_Witness ==
    /\ n.status = "ok"
    /\ Cardinality({x \in n.read : EndsWithXml(x)}) = 2
    /\ LET entries == IterEntries(bucket, BasePrefix(n.snapshot))
       IN  \E i, j \in 1..Len(entries) :
               /\ i < j
               /\ ParseEntry(entries[i]).base_id = ParseEntry(entries[j]).base_id
               /\ ParseEntry(entries[i]).version > ParseEntry(entries[j]).version

\* C2: a normalize call that raises leaves blob storage as it was, and a
\* call that changes blob storage has validated the table it uploads.
C2_UploadOnlyAfterValidation ==
    [][/\ n'.status = "raised" => bucket' = bucket
       /\ bucket' # bucket =>
              /\ n'.status = "ok"
              /\ SchemaValid(bucket'[n'.output_blob].rows)
              /\ \A b \in DOMAIN bucket : bucket'[b] = bucket[b] \/ b = n'.output_blob]_vars

\* validation failed on a table that was built, and no output blob exists
C2_Witness ==
    /\ n.status = "raised"
    /\ n.error = "SchemaError"
    /\ n.rows # <<>>
    /\ n.output_blob \notin DOMAIN bucket

\* C3 as claimed: every row written has a non-empty base identifier, a
\* non-empty abstract and a published_at that parses.
C3_RowsNonEmptyAsClaimed ==
    n.status = "ok" =>
        \A i \in 1..Len(WrittenRows) :
            /\ WrittenRows[i].base_id # <<>>
            /\ WrittenRows[i].abstract # <<>>
            /\ ParsesAsDatetime(WrittenRows[i].published_at)

\* C4 as claimed: when the pages hold a malformed entry next to well-formed
\* entries that pass the schema, normalize still writes a table with a row
\* for every well-formed entry's base identifier.
C4_SkipsMalformedAsClaimed ==
    ( /\ n.status # "none"
      /\ n.error # "NotFound"
      /\ \E e \in InputEntries : Malformed(e)
      /\ WellFormed # {}
      /\ \A p \in WellFormed : ParsesAsDatetime(p.published_at) )
    => /\ n.status = "ok"
       /\ \A p \in WellFormed :
              \E i \in 1..Len(WrittenRows) : WrittenRows[i].base_id = p.base_id

(***************************************************************************)
(* Claims about harvest and about snapshots in blob storage.               *)
(***************************************************************************)
RECURSIVE SumCounts(_)
SumCounts(uploads) ==
    IF uploads = <<>> THEN 0 ELSE uploads[1].count + SumCounts(Tail(uploads))

\* the blobs of the storage layout that belong to a snapshot
Belongs(b, snapshot) ==
    \/ b = ManifestBlob(BasePrefix(snapshot))
    \/ \E page \in 0..5 : b = PageBlob(BasePrefix(snapshot), page)

Completed(store, snapshot) == ManifestBlob(BasePrefix(snapshot)) \in DOMAIN store

Written(b) == b \in DOMAIN bucket' /\ (b \notin DOMAIN bucket \/ bucket'[b] # bucket[b])

\* C5 as claimed: the manifest's page count is the number of page blobs the
\* run persisted and its record count is the sum of their entry counts.
C5_ManifestCountsAsClaimed ==
    h.pc = "done" =>
        /\ h.manifest.pages = Len(h.uploaded)
        /\ h.manifest.count = SumCounts(h.uploaded)

C7_SnapshotImmutableAsClaimed ==
    [][\A s \in SnapshotIds : \A b \in DOMAIN bucket :
           (Completed(bucket, s) /\ Belongs(b, s)) =>
               (b \in DOMAIN bucket' /\ bucket'[b] = bucket[b])]_vars

\* C8 as claimed: a harvest run uploads only blobs of its own snapshot and
\* normalize(S) downloads only blobs of snapshot S.
C8_RunsShareNothingAsClaimed ==
    /\ \A i \in 1..Len(h.uploaded) : Belongs(h.uploaded[i].name, h.snapshot_id)
    /\ n.status # "none" => \A b \in n.read : Belongs(b, n.snapshot)

(***************************************************************************)
(* The feed client's rate limiter, with harvest in the same process.       *)
(***************************************************************************)
\* arxiv_client._rate_limit_sleep: the clock once the sleep is over
RateLimitSleep(now, last) ==
    LET elapsed == now - last
    IN  IF elapsed < RATE_LIMIT_SECONDS THEN now + (RATE_LIMIT_SECONDS - elapsed) ELSE now

\* _rate_limit_sleep() followed by requests.get(...)
FeedCall(by) ==
    /\ clock <= MaxClock
    /\ clock' = RateLimitSleep(clock, last_request_ts)
    /\ last_request_ts' = clock'
    /\ feedlog' = Sent(clock', by)
    /\ UNCHANGED <<bucket, h, n, runs, ix, em, sv, cfg, fn>>

GetById == FeedCall("get_by_id")

IterQuery == FeedCall("iter_query")

Tick ==
    /\ clock < MaxClock
    /\ clock' = clock + 1
    /\ UNCHANGED <<bucket, h, n, runs, last_request_ts, feedlog, ix, em, sv, cfg, fn>>

TimedFeeds == SeqsUpTo({RawEntry(IdUrl(<<"2">>), <<"T5">>, <<"y">>, GoodDate, <<>>)},
                       MaxUpstream)

HarvestStartTimed == HarvestStartWith({<<"a">>}, TimedFeeds)

NextRate ==
    GetById \/ IterQuery \/ Tick \/ HarvestStartTimed \/ HarvestPage \/ HarvestFail

SpecRate == Init /\ [][NextRate]_vars

\* C9 as claimed: any two consecutive outbound feed requests of the
\* process (get_by_id, iter_query, harvest pages) are at least the minimum
\* interval apart.
C9_MinIntervalAsClaimed ==
    Len(feedlog) = 2 => feedlog[1].t - feedlog[2].t >= RATE_LIMIT_SECONDS

(***************************************************************************)
(* index_snapshot(snapshot). One step per batch: embed, upsert, probe.     *)
(* The remote index acknowledges an upsert whether or not it keeps every   *)
(* datapoint, and answers a read with the requested ids it holds.          *)
(***************************************************************************)
\* VertexEmbeddingClient.embed_batch, one vector per abstract
Embed(abstract) == <<"vector of">> \o abstract

\* indexer.py lines 46-65
MakeItem(row) ==
    [id |-> row.base_id, vector |-> Embed(row.abstract),
     ingest_snapshot |-> row.ingest_snapshot]

\* chunks that run one row into the next chunk
BatchAtMutant(rows, pos) == SubSeq(rows, pos + 1, Min(Len(rows), pos + BATCH_SIZE + 1))

\* _chunks: the rows of the batch that starts after position pos
BatchAt(rows, pos) == SubSeq(rows, pos + 1, Min(Len(rows), pos + BATCH_SIZE))

\* VertexVectorSearchClient.upsert: the items the index holds afterwards,
\* given the upserted items it kept
Upsert(index, kept) == {it \in index : \A k \in kept : k.id # it.id} \cup kept

\* VertexVectorSearchClient.get_datapoints: a dict keyed by datapoint id
GetDatapoints(index, ids) == {id \in ids : \E it \in index : it.id = id}

\* random.sample(ids, min(PROBE_COUNT, len(items))): the possible samples
ProbeSamples(ids) ==
    {s \in SUBSET ids : Cardinality(s) = Min(PROBE_COUNT, Cardinality(ids))}

\* a mismatch report that counts against the whole batch
ProbeMissingMutant(batch_ids, probe_ids, datapoints) ==
    Cardinality(batch_ids \ datapoints)

\* indexer.py line 72: len(set(probe_ids) - set(datapoints))
ProbeMissing(batch_ids, probe_ids, datapoints) ==
    Cardinality(probe_ids \ datapoints)

\* a probe that only fails when the index returns none of the probed ids
ProbeMismatchMutant(probe_ids, datapoints) == Cardinality(datapoints) = 0

\* indexer.py line 71
ProbeMismatch(probe_ids, datapoints) == Cardinality(datapoints) # Cardinality(probe_ids)

\* the calls of one turn of the loop, in the order of indexer.py lines 45,
\* 66 and 70: embed_batch on the batch's abstracts, upsert of the items
\* zipped from the batch's rows and the embeddings, get_datapoints
BatchCalls(batch, probe_ids) ==
    LET embeddings == [i \in 1..Len(batch) |-> Embed(batch[i].abstract)]
    IN  <<[op |-> "embed_batch", texts |-> [i \in 1..Len(batch) |-> batch[i].abstract]],
          [op |-> "upsert",
           items |-> [i \in 1..Len(batch) |->
                         [id |-> batch[i].base_id, vector |-> embeddings[i]]]],
          [op |-> "get_datapoints", ids |-> probe_ids]>>

\* indexer.py lines 29-41
IndexStart ==
    /\ ix.pc = "idle"
    /\ \E snapshot \in SnapshotIds :
         LET blob_name == DefaultOutputBlob(snapshot)
         IN  IF blob_name \notin DOMAIN bucket
             THEN ix' = [ix EXCEPT !.pc = "failed", !.error = "NotFound"]
             ELSE IF bucket[blob_name].rows = <<>>
             THEN ix' = [ix EXCEPT !.pc = "done"]
             ELSE ix' = [ix EXCEPT !.pc = "batching", !.rows = bucket[blob_name].rows]
    /\ UNCHANGED <<bucket, h, n, runs, clock, last_request_ts, feedlog, em, sv, cfg, fn>>

\* indexer.py lines 42-73, one turn of the loop
IndexBatch ==
    /\ ix.pc = "batching"
    /\ LET batch == BatchAt(ix.rows, ix.pos)
           items == {MakeItem(batch[i]) : i \in 1..Len(batch)}
           ids == {it.id : it \in items}
       IN  \E kept \in SUBSET items, probe_ids \in ProbeSamples(ids) :
             LET index == Upsert(ix.index, kept)
                 datapoints == GetDatapoints(index, probe_ids)
                 probed == [ix EXCEPT !.index = index, !.batch_ids = ids,
                                      !.probe_ids = probe_ids,
                                      !.datapoints = datapoints,
                                      !.upserts = @ + 1,
                                      !.calls = @ \o BatchCalls(batch, probe_ids)]
             IN  IF ProbeMismatch(probe_ids, datapoints)
                 THEN ix' = [probed EXCEPT
                               !.pc = "failed", !.error = "ProbeMismatch",
                               !.missing = ProbeMissing(ids, probe_ids, datapoints)]
                 ELSE ix' = [probed EXCEPT
                               !.pos = @ + BATCH_SIZE,
                               !.pc = IF ix.pos + BATCH_SIZE >= Len(ix.rows)
                                      THEN "done" ELSE "batching"]
    /\ UNCHANGED <<bucket, h, n, runs, clock, last_request_ts, feedlog, em, sv, cfg, fn>>

\* the k-th paper of an upstream result list of distinct papers
IndexEntry(k) ==
    CASE k = 1 -> RawEntry(IdUrl(<<"1", "v", "1">>), <<"T1">>, <<"x">>, GoodDate, <<>>)
      [] k = 2 -> RawEntry(IdUrl(<<"2">>), <<"T5">>, <<"y">>, GoodDate, <<>>)
      [] k = 3 -> RawEntry(IdUrl(<<"3", "v", "2">>), <<"T9">>, <<"x">>, GoodDate, <<>>)
      [] k = 4 -> RawEntry(IdUrl(<<"4", "v", "1">>), <<"T10">>, <<"z">>, LaterDate, <<>>)
      [] k = 5 -> RawEntry(IdUrl(<<"5", "v", "3">>), <<"T11">>, <<"w">>, LaterDate, <<>>)
      [] k = 6 -> RawEntry(IdUrl(<<"6">>), <<"T12">>, <<"y">>, LaterDate, <<>>)

\* blob storage after harvest and normalize of a snapshot of k papers
Pipelined(snapshot, k) ==
    LET harvested == Harvested(EmptyStore,
                               StartLocals(snapshot, [i \in 1..k |-> IndexEntry(i)]))
    IN  NormalizeStore(harvested, NormalizeCall(harvested, snapshot, NoBlob))

InitIndex ==
    /\ \E snapshot \in SnapshotIds, k \in 0..MaxRows : bucket = Pipelined(snapshot, k)
    /\ h = IdleLocals
    /\ n = NoOutcome
    /\ runs = 0
    /\ clock = StartClock
    /\ last_request_ts = 0
    /\ feedlog = <<>>
    /\ ix = IndexIdle
    /\ em = EmbedFresh
    /\ sv = ServiceDown
    /\ cfg = ConfigFresh
    /\ fn = NoCall

NextIndex == IndexStart \/ IndexBatch

SpecIndex == InitIndex /\ [][NextIndex]_vars

\* C10: after a batch's upsert the probe covers min(PROBE_COUNT, batch
\* size) ids of that batch, and when the index returns fewer ids than were
\* probed the run fails with a message whose missing count is the number
\* of ids probed minus the number of ids found.
C10_ProbeMismatchNamesMissingCount ==
    ix.upserts > 0 =>
        /\ ix.probe_ids \subseteq ix.batch_ids
        /\ Cardinality(ix.probe_ids) = Min(PROBE_COUNT, Cardinality(ix.batch_ids))
        /\ Cardinality(ix.datapoints) < Cardinality(ix.probe_ids) =>
               /\ ix.pc = "failed"
               /\ ix.error = "ProbeMismatch"
               /\ ix.missing = Cardinality(ix.probe_ids) - Cardinality(ix.datapoints)

\* a full batch probed with fewer ids than it holds, one probed id missing
C10_Witness ==
    /\ ix.pc = "failed"
    /\ Cardinality(ix.batch_ids) = BATCH_SIZE
    /\ Cardinality(ix.probe_ids) = PROBE_COUNT
    /\ Cardinality(ix.datapoints) = PROBE_COUNT - 1
    /\ ix.missing = 1

\* the ids the index holds
IndexIds == {it.id : it \in ix.index}

\* C11 as claimed: while index_snapshot has not raised, every id of the
\* batch it upserted last is readable from the index, whatever the size of
\* the batch.
C11_EveryDropDetectedAsClaimed ==
    (ix.upserts > 0 /\ ix.pc # "failed") => ix.batch_ids \subseteq IndexIds

\* C11 amended: while index_snapshot has not raised, every probed id of the
\* batch it upserted last (a sample of min(PROBE_COUNT, batch size) ids) is
\* readable from the index, so every id of a batch no larger than
\* PROBE_COUNT is.
C11_EveryProbedDropDetected ==
    (ix.upserts > 0 /\ ix.pc # "failed") =>
        /\ ix.probe_ids \subseteq IndexIds
        /\ Cardinality(ix.batch_ids) <= PROBE_COUNT => ix.batch_ids \subseteq IndexIds

\* a run that returned after a full batch and a short one
C11_Witness ==
    /\ ix.pc = "done"
    /\ ix.upserts = 2
    /\ Cardinality(ix.batch_ids) <= PROBE_COUNT
    /\ ix.batch_ids \subseteq IndexIds

\* C12 as claimed: when index_snapshot ends with a probe mismatch the index
\* holds no item of the run (the index of every run here starts empty).
C12_NothingCommittedAsClaimed ==
    ix.error = "ProbeMismatch" => ix.index = {}

(***************************************************************************)
(* VertexEmbeddingClient: embed_text and embed_batch over one _cache.      *)
(* The model answers a call with one embedding per text it was sent; the   *)
(* values it returns may differ from one call to the next, so a vector     *)
(* carries the number of the model call that produced it.                  *)
(***************************************************************************)
MaxCalls == 3

MaxBatch == 2

EmbedTexts == {<<"x">>, <<"y">>}

EmbedBatches == SeqsUpTo(EmbedTexts, MaxBatch)

\* _hash_text: the SHA-256 hex digest of the text
HashText(text) == <<"sha256">> \o text

\* self._model.get_embeddings(texts): one embedding per text, in order
GetEmbeddings(texts, call) == [i \in 1..Len(texts) |-> [of |-> texts[i], call |-> call]]

\* the model calls made so far on the client
ModelCalls(log) == SelectSeq(log, LAMBDA ev : ev.called = 1)

\* _get_from_cache: a hit when the key is present
Cached(cache, text) == HashText(text) \in DOMAIN cache

\* a client that forgets to store what it embedded
StoreCacheMutant(cache, text, vector) == cache

\* _store_cache
StoreCache(cache, text, vector) ==
    [k \in DOMAIN cache \cup {HashText(text)} |->
        IF k = HashText(text) THEN vector ELSE cache[k]]

\* embed_text: the cache and the event of one call
EmbedTextCall(e, text) ==
    IF Cached(e.cache, text)
    THEN [cache |-> e.cache,
          event |-> [op |-> "embed_text", texts |-> <<text>>,
                     result |-> <<e.cache[HashText(text)]>>,
                     sent |-> <<>>, called |-> 0]]
    ELSE LET vector == GetEmbeddings(<<text>>, Len(ModelCalls(e.log)) + 1)[1]
         IN  [cache |-> StoreCache(e.cache, text, vector),
              event |-> [op |-> "embed_text", texts |-> <<text>>,
                         result |-> <<vector>>,
                         sent |-> <<text>>, called |-> 1]]

\* embed_batch lines 57-64: the positions of the texts that miss the cache
UncachedIndices(cache, texts) ==
    SelectSeq([i \in 1..Len(texts) |-> i], LAMBDA i : ~Cached(cache, texts[i]))

\* a batch that fills the placeholders in the order of the responses
OriginalIdxMutant(uncached_indices, i) == i

\* embed_batch line 71: original_idx = uncached_indices[i]
OriginalIdx(uncached_indices, i) == uncached_indices[i]

RECURSIVE FillBatch(_, _, _, _, _)
\* embed_batch lines 70-74: place and store the responses from the i-th on
FillBatch(acc, texts, uncached_indices, responses, i) ==
    IF i > Len(responses)
    THEN acc
    ELSE LET original_idx == OriginalIdx(uncached_indices, i)
         IN  FillBatch([cache |-> StoreCache(acc.cache, texts[original_idx], responses[i]),
                        embeddings |-> [acc.embeddings EXCEPT ![original_idx] = responses[i]]],
                       texts, uncached_indices, responses, i + 1)

\* embed_batch: the cache and the event of one call
EmbedBatchCall(e, texts) ==
    LET uncached_indices == UncachedIndices(e.cache, texts)
        uncached_texts == [j \in 1..Len(uncached_indices) |-> texts[uncached_indices[j]]]
        placeholders == [i \in 1..Len(texts) |->
                            IF Cached(e.cache, texts[i])
                            THEN e.cache[HashText(texts[i])] ELSE <<>>]
    IN  IF uncached_texts = <<>>
        THEN [cache |-> e.cache,
              event |-> [op |-> "embed_batch", texts |-> texts, result |-> placeholders,
                         sent |-> <<>>, called |-> 0]]
        ELSE LET responses == GetEmbeddings(uncached_texts, Len(ModelCalls(e.log)) + 1)
                 filled == FillBatch([cache |-> e.cache, embeddings |-> placeholders],
                                     texts, uncached_indices, responses, 1)
             IN  [cache |-> filled.cache,
                  event |-> [op |-> "embed_batch", texts |-> texts,
                             result |-> filled.embeddings,
                             sent |-> uncached_texts, called |-> 1]]

EmbedStep(call) ==
    /\ Len(em.log) < MaxCalls
    /\ em' = [cache |-> call.cache, log |-> Append(em.log, call.event)]
    /\ UNCHANGED <<bucket, h, n, runs, clock, last_request_ts, feedlog, ix, sv, cfg, fn>>

EmbedText == \E text \in EmbedTexts : EmbedStep(EmbedTextCall(em, text))

EmbedBatch == \E texts \in EmbedBatches : EmbedStep(EmbedBatchCall(em, texts))

NextEmbed == EmbedText \/ EmbedBatch

SpecEmbed == Init /\ [][NextEmbed]_vars

\* the number of times the model was sent the text by the calls of the log
RECURSIVE Submissions(_, _)
Submissions(log, text) ==
    IF log = <<>>
    THEN 0
    ELSE Len(SelectSeq(log[1].sent, LAMBDA t : t = text)) + Submissions(Tail(log), text)

\* C13: of two embed_text calls on one client with the same text the later
\* one returns the vector the earlier one returned and calls no model, and
\* the earlier one calls the model once when the text was never submitted
\* before it: across the two calls the model is called exactly once.
C13_SecondEmbedTextFromCache ==
    \A i, j \in 1..Len(em.log) :
        (/\ i < j
         /\ em.log[i].op = "embed_text"
         /\ em.log[j].op = "embed_text"
         /\ em.log[i].texts = em.log[j].texts) =>
            /\ em.log[j].result = em.log[i].result
            /\ em.log[j].called = 0
            /\ Submissions(SubSeq(em.log, 1, i - 1), em.log[i].texts[1]) = 0 =>
                   em.log[i].called + em.log[j].called = 1

\* embed_text twice with one text on a fresh client, another text's model
\* call in between
C13_Witness ==
    /\ Len(em.log) = 3
    /\ em.log[1].op = "embed_text"
    /\ em.log[3].op = "embed_text"
    /\ em.log[1].texts = em.log[3].texts
    /\ em.log[1].called = 1
    /\ em.log[2].called = 1
    /\ em.log[3].called = 0

\* C14: an embed_batch call returns one vector per input text, position i
\* holding the embedding of texts[i] (the cached vector when the text was
\* cached before the call, this call's answer otherwise); it sends the
\* model exactly the texts that miss the cache, in one call, and calls no
\* model when every text is cached.
C14_BatchAlignedAndOnlyMisses ==
    [][(/\ Len(em'.log) = Len(em.log) + 1
        /\ em'.log[Len(em'.log)].op = "embed_batch") =>
           LET ev == em'.log[Len(em'.log)]
               misses == {i \in 1..Len(ev.texts) : ~Cached(em.cache, ev.texts[i])}
           IN  /\ Len(ev.result) = Len(ev.texts)
               /\ \A i \in 1..Len(ev.texts) :
                      /\ ev.result[i] # <<>>
                      /\ ev.result[i].of = ev.texts[i]
                      /\ i \notin misses => ev.result[i] = em.cache[HashText(ev.texts[i])]
                      /\ i \in misses => ev.result[i].call = Len(ModelCalls(em'.log))
               /\ {ev.sent[k] : k \in 1..Len(ev.sent)} = {ev.texts[i] : i \in misses}
               /\ \A t \in {ev.sent[k] : k \in 1..Len(ev.sent)} : ~Cached(em.cache, t)
               /\ ev.called = IF misses = {} THEN 0 ELSE 1
               /\ Len(ModelCalls(em'.log)) = Len(ModelCalls(em.log)) + ev.called]_vars

\* a batch of a cached text followed by an uncached one
C14_Witness ==
    /\ Len(em.log) = 2
    /\ em.log[1].op = "embed_text"
    /\ em.log[2].op = "embed_batch"
    /\ Len(em.log[2].texts) = 2
    /\ em.log[2].texts[1] = em.log[1].texts[1]
    /\ em.log[2].sent = <<em.log[2].texts[2]>>
    /\ em.log[2].result[1] = em.log[1].result[1]
    /\ em.log[2].result[2].call = 2

\* C15 as claimed: over any sequence of embed_text and embed_batch calls on
\* one client, no text is sent to the model more than once.
C15_EachTextSubmittedOnceAsClaimed ==
    \A text \in EmbedTexts : Submissions(em.log, text) <= 1

(***************************************************************************)
(* parse_arxiv_url. A URL is a sequence of tokens: the scheme, the host    *)
(* and the view segment are one token each, the rest is one token per      *)
(* character.                                                              *)
(***************************************************************************)
\* str.lower on the fragments the pattern matches without regard to case
LowerTok(t) ==
    CASE t = "HTTPS://" -> "https://"
      [] t = "HTTP://" -> "http://"
      [] t = "ARXIV.ORG/" -> "arxiv.org/"
      [] t = "arXiv.org/" -> "arxiv.org/"
      [] t = "arxivXorg/" -> "arxivxorg/"
      [] t = "ABS/" -> "abs/"
      [] t = "PDF/" -> "pdf/"
      [] t = "P" -> "p"
      [] t = "D" -> "d"
      [] t = "F" -> "f"
      [] OTHER -> t

\* the character class [\w.\-]
IdChars ==
    Digits \cup {"v", "V", "p", "d", "f", "P", "D", "F", "a", "h", "t", "_", ".", "-"}

\* the length of the longest run of characters of the set from position i on
RECURSIVE RunLen(_, _, _)
RunLen(s, i, set) ==
    IF i <= Len(s) /\ s[i] \in set THEN 1 + RunLen(s, i + 1, set) ELSE 0

\* needle in haystack, for strings
Contains(s, sub) ==
    \E i \in 1..(Len(s) + 1) : i + Len(sub) - 1 <= Len(s) /\ SubSeq(s, i, i + Len(sub) - 1) = sub

\* re.search(r"v\d+", url): the first match, or the empty string for none
FirstVersion(url) ==
    LET starts == {i \in 1..Len(url) : url[i] = "v" /\ RunLen(url, i + 1, Digits) > 0}
    IN  IF starts = {}
        THEN <<>>
        ELSE LET i == CHOOSE k \in starts : \A m \in starts : k <= m
             IN  SubSeq(url, i, i + RunLen(url, i + 1, Digits))

\* identifier.lower().endswith(".pdf")
EndsWithPdf(identifier) ==
    /\ Len(identifier) >= 4
    /\ [k \in 1..4 |-> LowerTok(identifier[Len(identifier) - 4 + k])] = <<".", "p", "d", "f">>

\* a pattern whose dot is not escaped
HostMatchesMutant(tok) == LowerTok(tok) \in {"arxiv.org/", "arxivxorg/"}

\* the pattern's arxiv\.org/ under re.IGNORECASE
HostMatches(tok) == LowerTok(tok) = "arxiv.org/"

\* parse_arxiv_url: whether the pattern matched, and the identifier
ParseArxivUrl(url) ==
    LET u == Strip(url)
    IN  IF /\ Len(u) >= 4
           /\ LowerTok(u[1]) \in {"http://", "https://"}
           /\ HostMatches(u[2])
           /\ LowerTok(u[3]) \in {"abs/", "pdf/"}
           /\ u[4] \in IdChars
        THEN LET run == SubSeq(u, 4, 3 + RunLen(u, 4, IdChars))
                 identifier == IF EndsWithPdf(run) THEN SubSeq(run, 1, Len(run) - 4) ELSE run
                 version == FirstVersion(url)
             IN  [matched |-> TRUE,
                  id |-> IF version # <<>> /\ ~Contains(identifier, version)
                         THEN identifier \o version ELSE identifier]
        ELSE [matched |-> FALSE, id |-> <<>>]

(***************************************************************************)
(* The online query service: the startup hook and the /search handler.     *)
(* The handler never yields to the event loop (its calls to the feed, the  *)
(* embedding model and the index are blocking), so the process has at most *)
(* one request in hand. A server that does not drive the startup hook      *)
(* hands requests to the handler with both client globals still None.      *)
(***************************************************************************)
MaxRequests == 2

SearchUrls ==
    {<<"https://", "arxiv.org/", "abs/", "1", "v", "2">>,
     <<"https://", "example.org/", "abs/", "1">>}

\* caller addresses; the empty one is a request without a client address
SearchIps == {"10.0.0.94", "10.0.0.40", "10.0.0.135", "10.0.0.37", ""}

SearchRequests == [url : SearchUrls, ip : SearchIps, trace : {<<>>}]

\* int(hashlib.md5(ip).hexdigest(), 16), its last four decimal digits
Md5Int(ip) ==
    CASE ip = "10.0.0.94" -> 6000
      [] ip = "10.0.0.40" -> 3909
      [] ip = "10.0.0.135" -> 7110
      [] ip = "10.0.0.37" -> 6199
      [] ip = "127.0.0.1" -> 8902

\* search_api.py line 128
RemoteIp(req) == IF req.ip # "" THEN req.ip ELSE "127.0.0.1"

\* a split that also sends the threshold value to B
InGroupBMutant(ip_hash) == ip_hash % 100 <= 10

\* search_api.py line 135: ip_hash % 100 < 10
InGroupB(ip_hash) == ip_hash % 100 < 10

\* a split that sends every other request to B
SelectVariantMutant(s, req) ==
    IF s.b_deployed_index_id # <<>> /\ s.client_B /\ Len(s.handled) % 2 = 1
    THEN [user_group |-> "B", model_version |-> "v3_768d", client |-> s.client_B,
          target |-> "B"]
    ELSE [user_group |-> "A", model_version |-> "v1_768d", client |-> s.client_A,
          target |-> "A"]

\* search_api.py lines 128-142: the variant, its label and its client handle
SelectVariant(s, req) ==
    IF s.b_deployed_index_id # <<>> /\ s.client_B /\ InGroupB(Md5Int(RemoteIp(req)))
    THEN [user_group |-> "B", model_version |-> "v3_768d", client |-> s.client_B,
          target |-> "B"]
    ELSE [user_group |-> "A", model_version |-> "v1_768d", client |-> s.client_A,
          target |-> "A"]

\* a framework that answers every exception with 500
StatusOfMutant(exc) == 500

\* FastAPI answers an HTTPException with its status code; everything else
\* goes to the handler registered for Exception
StatusOf(exc) == IF exc.type = "HTTPException" THEN exc.status_code ELSE 500

HttpException(code) == [type |-> "HTTPException", status_code |-> code]

ArxivNotFoundError == [type |-> "ArxivNotFoundError", status_code |-> 0]

IndexError == [type |-> "GoogleAPICallError", status_code |-> 0]

\* the module-level embed_text the handler imports
ServiceEmbedText(text) == Embed(text)

Neighbor(id, distance, metadata) == [id |-> id, distance |-> distance, metadata |-> metadata]

NoMetadata == <<>>

\* VectorSearchClient.search: the answers of the index, nearest first
IndexAnswers ==
    {<<>>,
     <<Neighbor(<<"1">>, 0, [ingest_snapshot |-> <<"a">>]), Neighbor(<<"2">>, 1, NoMetadata)>>,
     <<Neighbor(<<"2">>, 0, NoMetadata), Neighbor(<<"1">>, 1, [ingest_snapshot |-> <<"a">>])>>}

\* a record that lists the ids in sorted order
RecommendationsMutant(neighbors_list) ==
    LET ids == {neighbors_list[i].id : i \in 1..Len(neighbors_list)}
    IN  IF ids = {<<"1">>, <<"2">>} THEN <<<<"1">>, <<"2">>>> ELSE <<>>

\* search_api.py line 173: [n["id"] for n in neighbors_list]
Recommendations(neighbors_list) == [i \in 1..Len(neighbors_list) |-> neighbors_list[i].id]

\* a record that reads the snapshot of the last neighbour
DataSnapshotIdMutant(neighbors_list) ==
    IF neighbors_list = <<>>
          \/ "ingest_snapshot" \notin DOMAIN neighbors_list[Len(neighbors_list)].metadata
    THEN <<"unknown">>
    ELSE neighbors_list[Len(neighbors_list)].metadata.ingest_snapshot

\* search_api.py lines 165-168
DataSnapshotId(neighbors_list) ==
    IF neighbors_list = <<>> \/ "ingest_snapshot" \notin DOMAIN neighbors_list[1].metadata
    THEN <<"unknown">>
    ELSE neighbors_list[1].metadata.ingest_snapshot

\* value or "unknown"
OrUnknown(value) == IF value = "" THEN "unknown" ELSE value

\* request.headers.get("X-Cloud-Trace-Context", "no-trace")
RequestId(req) == IF req.trace = <<>> THEN "no-trace" ELSE req.trace[1]

\* search_api.py lines 170-183: the RECO_RESPONSE record
LogPayload(s) ==
    [message |-> "RECO_RESPONSE", query_url |-> s.req.url,
     recommendations |-> Recommendations(s.neighbors),
     request_id |-> RequestId(s.req),
     user_group |-> s.user_group, model_version |-> s.model_version,
     data_snapshot_id |-> DataSnapshotId(s.neighbors),
     pipeline_git_sha |-> OrUnknown(s.git_sha),
     container_image_digest |-> OrUnknown(s.image_digest)]

\* a handler that drops the secondary client when it is done
FinishedMutant(s, status, stage) ==
    [s EXCEPT !.pc = "idle", !.req = NoRequest, !.user_group = "", !.model_version = "",
              !.arxiv_id = <<>>, !.abstract = <<>>, !.vec = <<>>, !.neighbors = <<>>,
              !.stages = <<>>, !.logged = <<>>, !.feed_calls = 0, !.embed_calls = 0,
              !.index_calls = 0, !.client_B = FALSE, !.client_to_use = "", !.queried = <<>>,
              !.handled = Append(@, [url |-> s.req.url, ip |-> s.req.ip,
                                     trace |-> s.req.trace, queried |-> s.queried,
                                     user_group |-> s.user_group,
                                     model_version |-> s.model_version,
                                     status |-> status,
                                     stages |-> Append(s.stages, stage),
                                     logged |-> s.logged, neighbors |-> s.neighbors,
                                     feed_calls |-> s.feed_calls,
                                     embed_calls |-> s.embed_calls,
                                     index_calls |-> s.index_calls])]

\* the request in hand ends with a response of the given status
Finished(s, status, stage) ==
    [s EXCEPT !.pc = "idle", !.req = NoRequest, !.user_group = "", !.model_version = "",
              !.arxiv_id = <<>>, !.abstract = <<>>, !.vec = <<>>, !.neighbors = <<>>,
              !.stages = <<>>, !.logged = <<>>, !.feed_calls = 0, !.embed_calls = 0,
              !.index_calls = 0, !.client_to_use = "", !.queried = <<>>,
              !.handled = Append(@, [url |-> s.req.url, ip |-> s.req.ip,
                                     trace |-> s.req.trace, queried |-> s.queried,
                                     user_group |-> s.user_group,
                                     model_version |-> s.model_version,
                                     status |-> status,
                                     stages |-> Append(s.stages, stage),
                                     logged |-> s.logged, neighbors |-> s.neighbors,
                                     feed_calls |-> s.feed_calls,
                                     embed_calls |-> s.embed_calls,
                                     index_calls |-> s.index_calls])]

\* an exception that is answered as if the handler had returned
RaisedMutant(s, exc) == Finished(s, StatusOf(exc), "Responded")

\* an exception leaves the handler: the framework answers with its status
Raised(s, exc) == Finished(s, StatusOf(exc), "Error")

ServiceOnly == UNCHANGED <<bucket, h, n, runs, clock, last_request_ts, feedlog, ix, em, cfg, fn>>

\* _init_clients: get_settings (which raises unless DEPLOYED_INDEX_ID and
\* the other required variables are set) or any of the three
\* initialisations may raise, which ends startup
ServiceStartup ==
    /\ sv.phase = "down"
    /\ sv.pc = "idle"
    /\ sv.handled = <<>>
    /\ \E failing \in {"none", "settings", "sdk", "A", "B"} :
         sv' = IF failing \in {"settings", "sdk"}
               THEN [sv EXCEPT !.phase = "failed"]
               ELSE IF failing = "A"
               THEN [sv EXCEPT !.phase = "failed"]
               ELSE IF sv.b_deployed_index_id = <<>>
               THEN [sv EXCEPT !.phase = "serving", !.client_A = TRUE]
               ELSE IF failing = "B"
               THEN [sv EXCEPT !.phase = "failed", !.client_A = TRUE]
               ELSE [sv EXCEPT !.phase = "serving", !.client_A = TRUE, !.client_B = TRUE]
    /\ ServiceOnly

\* search lines 126-148: settings, routing, the client check
SearchReceiveWith(requests) ==
    /\ sv.phase \in {"down", "serving"}
    /\ sv.pc = "idle"
    /\ Len(sv.handled) < MaxRequests
    /\ \E req \in requests :
         LET sel == SelectVariant(sv, req)
             routed == [sv EXCEPT !.req = req, !.user_group = sel.user_group,
                                  !.model_version = sel.model_version,
                                  !.client_to_use = sel.target,
                                  !.stages = <<"ReceivedURL", "VariantRouted">>,
                                  !.pc = "routed"]
         IN  sv' = IF sel.client THEN routed ELSE Raised(routed, HttpException(500))
    /\ ServiceOnly

SearchReceive == SearchReceiveWith(SearchRequests)

\* _maybe_fetch_abstract lines 115-119
SearchResolve ==
    /\ sv.pc = "routed"
    /\ LET parsed == ParseArxivUrl(sv.req.url)
       IN  sv' = IF ~parsed.matched \/ parsed.id = <<>>
                 THEN Raised(sv, HttpException(400))
                 ELSE [sv EXCEPT !.arxiv_id = parsed.id, !.pc = "resolved",
                                 !.stages = Append(@, "IdentifierResolved")]
    /\ ServiceOnly

\* _maybe_fetch_abstract lines 120-121: get_by_id behind the rate limiter
SearchFetch ==
    /\ sv.pc = "resolved"
    /\ clock' = RateLimitSleep(clock, last_request_ts)
    /\ last_request_ts' = clock'
    /\ feedlog' = Sent(clock', "get_by_id")
    /\ \E found \in BOOLEAN :
         LET called == [sv EXCEPT !.feed_calls = @ + 1]
             entry == ParseEntry(RawEntry(IdUrl(sv.arxiv_id), <<"T">>, <<"x">>, GoodDate, <<>>))
         IN  sv' = IF found
                   THEN [called EXCEPT !.abstract = entry.abstract, !.pc = "fetched",
                                       !.stages = Append(@, "MetadataFetched")]
                   ELSE Raised(called, ArxivNotFoundError)
    /\ UNCHANGED <<bucket, h, n, runs, ix, em, cfg, fn>>

\* search line 155
SearchEmbed ==
    /\ sv.pc = "fetched"
    /\ sv' = [sv EXCEPT !.vec = ServiceEmbedText(sv.abstract), !.embed_calls = @ + 1,
                        !.pc = "embedded", !.stages = Append(@, "Embedded")]
    /\ ServiceOnly

\* search line 159: the index answers or the call raises
SearchQueryWith(answers) ==
    /\ sv.pc = "embedded"
    /\ LET called == [sv EXCEPT !.index_calls = @ + 1,
                                !.queried = Append(@, sv.client_to_use)]
       IN  \/ \E answer \in answers :
                sv' = [called EXCEPT !.neighbors = answer, !.pc = "neighbors",
                                     !.stages = Append(@, "NeighborsFetched")]
           \/ sv' = Raised(called, IndexError)
    /\ ServiceOnly

SearchQuery == SearchQueryWith(IndexAnswers)

\* search lines 162-183
SearchLog ==
    /\ sv.pc = "neighbors"
    /\ sv' = [sv EXCEPT !.logged = Append(@, LogPayload(sv)), !.pc = "logged",
                        !.stages = Append(@, "Logged")]
    /\ ServiceOnly

\* search line 185
SearchRespond ==
    /\ sv.pc = "logged"
    /\ sv' = Finished(sv, 200, "Responded")
    /\ ServiceOnly

InitSearch ==
    /\ bucket = EmptyStore
    /\ h = IdleLocals
    /\ n = NoOutcome
    /\ runs = 0
    /\ clock = StartClock
    /\ last_request_ts = 0
    /\ feedlog = <<>>
    /\ ix = IndexIdle
    /\ em = EmbedFresh
    /\ \E b \in {<<>>, <<"deployed-b">>} : sv = [ServiceDown EXCEPT !.b_deployed_index_id = b]
    /\ cfg = ConfigFresh
    /\ fn = NoCall

NextSearch ==
    \/ ServiceStartup
    \/ SearchReceive
    \/ SearchResolve
    \/ SearchFetch
    \/ SearchEmbed
    \/ SearchQuery
    \/ SearchLog
    \/ SearchRespond

SpecSearch == InitSearch /\ [][NextSearch]_vars

\* the requests answered so far
Handled == Range(sv.handled)

\* the secondary variant is there to route to: its id is set and its client exists
SecondaryConfigured == sv.b_deployed_index_id # <<>> /\ sv.client_B

\* C16: a request is routed to variant B, labelled v3_768d, exactly when a
\* secondary variant is configured and the hash of the caller's address
\* mod 100 is below 10, and to variant A, labelled v1_768d, otherwise;
\* residues 0 and 9 go to B, 10 and 99 to A, and with no secondary variant
\* every request goes to A.
C16_RoutedToBIffConfiguredAndBelowTen ==
    \A e \in Handled :
        /\ e.user_group = "B" <=> (SecondaryConfigured /\ Md5Int(RemoteIp(e)) % 100 < 10)
        /\ e.user_group \in {"A", "B"}
        /\ e.model_version = IF e.user_group = "B" THEN "v3_768d" ELSE "v1_768d"
        /\ (SecondaryConfigured /\ e.ip \in {"10.0.0.94", "10.0.0.40"}) => e.user_group = "B"
        /\ e.ip \in {"10.0.0.135", "10.0.0.37"} => e.user_group = "A"
        /\ ~SecondaryConfigured => e.user_group = "A"

\* with a secondary variant, residue 9 was routed to B and residue 10 to A
C16_Witness ==
    /\ SecondaryConfigured
    /\ \E e \in Handled : e.ip = "10.0.0.40" /\ e.user_group = "B" /\ e.status = 200
    /\ \E e \in Handled : e.ip = "10.0.0.135" /\ e.user_group = "A" /\ e.status = 200

C18_NotFoundIs404AsClaimed ==
    \A e \in Handled :
        (e.feed_calls = 1 /\ "MetadataFetched" \notin Range(e.stages)) => e.status = 404

\* C19 as claimed: a request whose URL parse_arxiv_url does not recognise is
\* answered with status 400 and makes no feed, embedding or index call,
\* whatever the state of the index clients.
C19_BadUrlIs400AsClaimed ==
    \A e \in Handled :
        ~ParseArxivUrl(e.url).matched =>
            /\ e.status = 400
            /\ e.feed_calls = 0
            /\ e.embed_calls = 0
            /\ e.index_calls = 0

\* C20: a request that reached the neighbours emitted exactly one
\* RECO_RESPONSE record, before its response, listing the neighbour ids in
\* the order the index returned them; a request that ended earlier emitted
\* none, and the request in hand has emitted its record exactly when it is
\* past the logging step.
C20_OneProvenanceRecordInIndexOrder ==
    /\ \A e \in Handled :
           IF "NeighborsFetched" \in Range(e.stages)
           THEN /\ Len(e.logged) = 1
                /\ e.logged[1].message = "RECO_RESPONSE"
                /\ Len(e.logged[1].recommendations) = Len(e.neighbors)
                /\ \A i \in 1..Len(e.neighbors) :
                       e.logged[1].recommendations[i] = e.neighbors[i].id
                /\ e.status = 200
                /\ SubSeq(e.stages, Len(e.stages) - 2, Len(e.stages)) =
                       <<"NeighborsFetched", "Logged", "Responded">>
           ELSE e.logged = <<>>
    /\ Len(sv.logged) = IF sv.pc = "logged" THEN 1 ELSE 0

\* an answer of two neighbours, the larger id first, logged in that order
C20_Witness ==
    \E e \in Handled :
        /\ e.status = 200
        /\ Len(e.neighbors) = 2
        /\ e.neighbors[1].id = <<"2">>
        /\ e.logged[1].recommendations = <<<<"2">>, <<"1">>>>

\* the module-level variables of search_api and config that a request reads
ServiceGlobals == <<sv.b_deployed_index_id, sv.client_A, sv.client_B>>

\* C21 as claimed: once startup has completed, no step of a request changes
\* a module-level variable of the process: the client handles, the cached
\* settings and the feed client's last-request time all keep their values.
C21_RequestWritesNoGlobalAsClaimed ==
    [][sv.phase = "serving" =>
           /\ ServiceGlobals' = ServiceGlobals
           /\ last_request_ts' = last_request_ts]_vars

\* C21 amended: once startup has completed, no step of a request changes
\* the client handles or the cached settings; the feed client's
\* last-request time is written by the metadata fetch and by no other step,
\* and it is set to the time of that fetch.
C21_OnlyFeedTimestampWritten ==
    [][sv.phase = "serving" =>
           /\ ServiceGlobals' = ServiceGlobals
           /\ IF sv.pc = "resolved"
              THEN last_request_ts' = clock' /\ clock' >= clock
              ELSE last_request_ts' = last_request_ts]_vars

\* after startup a failed and a successful request were answered, both
\* clients are in place and the feed client's time has moved
C21_Witness ==
    /\ sv.phase = "serving"
    /\ sv.client_A
    /\ sv.client_B
    /\ Len(sv.handled) = 2
    /\ sv.handled[1].status = 500
    /\ sv.handled[2].status = 200
    /\ last_request_ts > StartClock

(***************************************************************************)
(* get_settings behind functools.lru_cache. The environment of the process *)
(* can change between calls; a variable is unset, set to the empty string  *)
(* or set to a value.                                                      *)
(***************************************************************************)
MaxLoads == 3

EnvValues == {"unset", "empty", "set"}

\* a check that only looks for unset variables
MissingMutant(value) == value = "unset"

\* _get_env: required and not value
Missing(value) == value \in {"unset", "empty"}

\* the Settings built from the required variables
SettingsOf(env) == [v \in RequiredVars |-> env[v]]

\* get_settings: a cached Settings is returned as it is; a load raises on a
\* missing variable, and lru_cache keeps nothing of a call that raised
GetSettingsCall(c) ==
    IF c.cache # NoSettings
    THEN [outcome |-> "returned", settings |-> c.cache, cache |-> c.cache]
    ELSE IF \E v \in RequiredVars : Missing(c.env[v])
    THEN [outcome |-> "raised", settings |-> NoSettings, cache |-> c.cache]
    ELSE [outcome |-> "returned", settings |-> SettingsOf(c.env), cache |-> SettingsOf(c.env)]

ConfigOnly ==
    UNCHANGED <<bucket, h, n, runs, clock, last_request_ts, feedlog, ix, em, sv, fn>>

\* os.environ changes (monkeypatch.setenv, monkeypatch.delenv)
SetEnv ==
    /\ \E v \in RequiredVars, value \in EnvValues :
         /\ cfg.env[v] # value
         /\ cfg' = [cfg EXCEPT !.env[v] = value]
    /\ ConfigOnly

\* get_settings.cache_clear()
CacheClear ==
    /\ cfg.cache # NoSettings
    /\ cfg' = [cfg EXCEPT !.cache = NoSettings]
    /\ ConfigOnly

GetSettings ==
    /\ Len(cfg.log) < MaxLoads
    /\ LET call == GetSettingsCall(cfg)
       IN  cfg' = [cfg EXCEPT !.cache = call.cache,
                              !.log = Append(@, [outcome |-> call.outcome,
                                                 settings |-> call.settings,
                                                 complete |-> \A v \in RequiredVars :
                                                                 cfg.env[v] = "set"])]
    /\ ConfigOnly

NextConfig == SetEnv \/ CacheClear \/ GetSettings

SpecConfig == Init /\ [][NextConfig]_vars

\* C22 as claimed: a call of get_settings raises when a required variable
\* is unset or empty and returns a Settings only when all six are set.
C22_RaisesWheneverMissingAsClaimed ==
    \A i \in 1..Len(cfg.log) : cfg.log[i].outcome = "returned" <=> cfg.log[i].complete

\* C22 amended: a call of get_settings that finds no cached Settings raises
\* when a required variable is unset or empty and leaves nothing cached,
\* and returns and caches a Settings of the six values when all are set; a
\* call that finds a cached Settings returns it whatever the environment.
C22_LoadRaisesWhenMissing ==
    [][Len(cfg'.log) = Len(cfg.log) + 1 =>
           LET call == cfg'.log[Len(cfg'.log)]
               complete == \A v \in RequiredVars : cfg.env[v] \notin {"unset", "empty"}
           IN  IF cfg.cache # NoSettings
               THEN call.outcome = "returned" /\ call.settings = cfg.cache
                                              /\ cfg'.cache = cfg.cache
               ELSE IF complete
               THEN /\ call.outcome = "returned"
                    /\ call.settings = [v \in RequiredVars |-> "set"]
                    /\ cfg'.cache = call.settings
               ELSE call.outcome = "raised" /\ cfg'.cache = NoSettings]_vars

\* a load failed on an incomplete environment, the next one succeeded, and
\* a third call returned the cached Settings with a variable gone
C22_Witness ==
    /\ Len(cfg.log) = 3
    /\ cfg.log[1].outcome = "raised"
    /\ cfg.log[2].outcome = "returned" /\ cfg.log[2].complete
    /\ cfg.log[3].outcome = "returned" /\ ~cfg.log[3].complete

(***************************************************************************)
(* parse_arxiv_url over URLs put together from their parts, and over       *)
(* strings that are no URL at all.                                         *)
(***************************************************************************)
NoParts ==
    [lead |-> <<>>, scheme |-> <<>>, host |-> <<>>, view |-> <<>>, body |-> <<>>,
     version |-> <<>>, suffix |-> <<>>, trail |-> <<>>]

\* a new-style identifier and an old-style one (archive/number)
UrlBodies == {<<"1", ".", "2">>, <<"h", "-", "t", "/", "9">>}

UrlParts ==
    [lead : {<<>>, <<" ">>},
     scheme : {<<"http://">>, <<"HTTPS://">>, <<"ftp://">>},
     host : {<<"arxiv.org/">>, <<"arXiv.org/">>, <<"example.com/">>, <<"arxivXorg/">>},
     view : {<<"abs/">>, <<"pdf/">>, <<"format/">>},
     body : UrlBodies,
     version : {<<>>, <<"v", "2">>, <<"v", "1", "0">>},
     suffix : {<<>>, <<".", "p", "d", "f">>, <<".", "P", "D", "F">>},
     trail : {<<>>, <<" ">>}]

UrlOf(parts) ==
    parts.lead \o parts.scheme \o parts.host \o parts.view \o parts.body
        \o parts.version \o parts.suffix \o parts.trail

\* strings that are not URLs
PlainStrings == {<<>>, <<" ">>, <<"1", ".", "2">>, <<"arxiv.org/", "abs/", "1">>}

ParseArgs ==
    {[url |-> UrlOf(parts), parts |-> parts] : parts \in UrlParts}
        \cup {[url |-> str, parts |-> NoParts] : str \in PlainStrings}

OfflineOnly ==
    UNCHANGED <<bucket, h, n, runs, clock, last_request_ts, feedlog, ix, em, sv, cfg>>

\* a caller hands parse_arxiv_url a string
ParseUrlCall ==
    /\ fn.op = "none"
    /\ \E args \in ParseArgs :
         fn' = [op |-> "parse_arxiv_url", args |-> args, result |-> ParseArxivUrl(args.url)]
    /\ OfflineOnly

\* the caller is done with the answer
ParseUrlReturn ==
    /\ fn.op = "parse_arxiv_url"
    /\ fn' = NoCall
    /\ OfflineOnly

NextParse == ParseUrlCall \/ ParseUrlReturn

SpecParse == Init /\ [][NextParse]_vars

\* the string is an abstract-view or PDF-view URL on the arxiv.org host
IsArxivViewUrl(parts) ==
    /\ parts.scheme \in {<<"http://">>, <<"HTTPS://">>}
    /\ parts.host \in {<<"arxiv.org/">>, <<"arXiv.org/">>}
    /\ parts.view \in {<<"abs/">>, <<"pdf/">>}

\* C23 as claimed: for an abstract-view or PDF-view URL on arxiv.org,
\* parse_arxiv_url returns the URL's identifier followed by the URL's
\* version suffix when it has one, and never the .pdf suffix.
C23_IdentifierWithVersionOnceAsClaimed ==
    (fn.op = "parse_arxiv_url" /\ IsArxivViewUrl(fn.args.parts)) =>
        /\ fn.result.matched
        /\ fn.result.id = fn.args.parts.body \o fn.args.parts.version

\* C24: for a string that is not an abstract-view or PDF-view URL on
\* arxiv.org (the empty string, another host, another scheme, a path
\* segment other than abs or pdf) parse_arxiv_url returns none.
C24_NonMatchingReturnsNone ==
    (fn.op = "parse_arxiv_url" /\ ~IsArxivViewUrl(fn.args.parts)) =>
        /\ ~fn.result.matched
        /\ fn.result.id = <<>>

\* none returned for a URL that differs from an arxiv.org one in one character
C24_Witness ==
    /\ fn.op = "parse_arxiv_url"
    /\ fn.args.parts.host = <<"arxivXorg/">>
    /\ fn.args.parts.view = <<"abs/">>
    /\ fn.args.parts.scheme = <<"http://">>
    /\ ~fn.result.matched

(***************************************************************************)
(* check_drift(reference, new, threshold). A table is the sequence of its  *)
(* primary_category values; shares and scores are fractions num/den.       *)
(***************************************************************************)
MaxDriftRows == 3

\* primary_category values; "null" is a missing value
DriftCategories == {"cs.AI", "cs.CV", "null"}

DriftTables == SeqsUpTo(DriftCategories, MaxDriftRows)

Frac(num, den) == [num |-> num, den |-> den]

DriftThresholds == {Frac(1, 10), Frac(1, 5), Frac(1, 2)}

\* fillna("<unknown>")
FillNa(category) == IF category = "null" THEN "<unknown>" ELSE category

\* the number of rows of the table with the category
CountOf(table, category) ==
    Cardinality({i \in 1..Len(table) : FillNa(table[i]) = category})

\* _load_counts: value_counts(normalize=True) as a dict
LoadCounts(table) ==
    [category \in {FillNa(table[i]) : i \in 1..Len(table)} |->
        Frac(CountOf(table, category), Len(table))]

\* counts.get(category, 0.0)
GetShare(counts, category) ==
    IF category \in DOMAIN counts THEN counts[category] ELSE Frac(0, 1)

Abs(x) == IF x < 0 THEN -x ELSE x

\* abs(ref_value - new_value)
AbsDiff(a, b) == Frac(Abs(a.num * b.den - b.num * a.den), a.den * b.den)

\* a check that also flags a score equal to the threshold
ExceedsMutant(diff, threshold) == diff.num * threshold.den >= threshold.num * diff.den

\* check_drift line 38: diff > threshold
Exceeds(diff, threshold) == diff.num * threshold.den > threshold.num * diff.den

\* check_drift: the returned scores and the categories it warns about
CheckDrift(reference, new, threshold) ==
    LET reference_counts == LoadCounts(reference)
        new_counts == LoadCounts(new)
        categories == DOMAIN reference_counts \cup DOMAIN new_counts
        drift_scores == [category \in categories |->
                            AbsDiff(GetShare(reference_counts, category),
                                    GetShare(new_counts, category))]
    IN  [drift_scores |-> drift_scores,
         flagged |-> {category \in categories : Exceeds(drift_scores[category], threshold)}]

CheckDriftCall ==
    /\ fn.op = "none"
    /\ \E reference \in DriftTables, new \in DriftTables, threshold \in DriftThresholds :
         fn' = [op |-> "check_drift",
                args |-> [reference |-> reference, new |-> new, threshold |-> threshold],
                result |-> CheckDrift(reference, new, threshold)]
    /\ OfflineOnly

CheckDriftReturn ==
    /\ fn.op = "check_drift"
    /\ fn' = NoCall
    /\ OfflineOnly

NextDrift == CheckDriftCall \/ CheckDriftReturn

SpecDrift == Init /\ [][NextDrift]_vars

\* the primary categories of a table, a missing one counted as <unknown>
CategoriesIn(table) == {FillNa(table[i]) : i \in 1..Len(table)}

\* score = |rows of the category / rows of the reference - the same for the
\* new table|, an empty table having share 0
IsShareDifference(score, category, reference, new) ==
    LET r == IF reference = <<>> THEN 1 ELSE Len(reference)
        m == IF new = <<>> THEN 1 ELSE Len(new)
    IN  score.num * (r * m) =
            Abs(CountOf(reference, category) * m - CountOf(new, category) * r) * score.den

\* C25: check_drift returns one score per category of the union of the two
\* tables' primary categories, each the absolute difference of the
\* category's shares, and flags exactly the categories whose score is
\* strictly above the threshold; shares 2/3, 1/3 against 1/3, 2/3 with
\* threshold 0.1 flag both categories.
C25_ScoresAreShareDifferences ==
    fn.op = "check_drift" =>
        LET a == fn.args
            scores == fn.result.drift_scores
        IN  /\ DOMAIN scores = CategoriesIn(a.reference) \cup CategoriesIn(a.new)
            /\ \A category \in DOMAIN scores :
                   /\ scores[category].den > 0
                   /\ IsShareDifference(scores[category], category, a.reference, a.new)
                   /\ category \in fn.result.flagged <=>
                          scores[category].num * a.threshold.den >
                              a.threshold.num * scores[category].den
            /\ (/\ a.reference = <<"cs.AI", "cs.AI", "cs.CV">>
                /\ a.new = <<"cs.AI", "cs.CV", "cs.CV">>
                /\ a.threshold = Frac(1, 10)) => fn.result.flagged = {"cs.AI", "cs.CV"}

\* a score equal to the threshold is not flagged, a category seen in one
\* table only is scored
C25_Witness ==
    /\ fn.op = "check_drift"
    /\ fn.args.reference = <<"cs.AI">>
    /\ fn.args.new = <<"cs.AI", "cs.CV">>
    /\ fn.args.threshold = Frac(1, 2)
    /\ fn.result.flagged = {}
    /\ DOMAIN fn.result.drift_scores = {"cs.AI", "cs.CV"}

(***************************************************************************)
(* evaluate(records, k, train_fraction). A row carries its abstract, its   *)
(* primary category and its publish time. The order in which the TF-IDF    *)
(* cosine ranking returns the training rows is left open: any order of     *)
(* them may come back for a query.                                         *)
(***************************************************************************)
MaxEvalRows == 3

\* abstracts: empty, or with a term the vectorizer keeps
EvalAbstracts == {<<>>, <<"x">>}

EvalRows == [abstract : EvalAbstracts, primary_category : {"cs.AI", "cs.CV"},
             published_at : {1, 2}]

EvalTables == SeqsUpTo(EvalRows, MaxEvalRows)

EvalKs == {1, 2}

EvalFractions == {Frac(1, 2), Frac(3, 4)}

\* stop words are dropped by TfidfVectorizer(stop_words="english")
HasTerm(abstract) == \E i \in 1..Len(abstract) : abstract[i] \notin {"the", " "}

\* not abstract.strip()
Blank(abstract) == \A i \in 1..Len(abstract) : abstract[i] = " "

\* pd.to_datetime(errors="coerce") turns an unreadable time into NaT, written 0
Parseable(row) == row.published_at # 0

RECURSIVE SortByTime(_)
\* sort_values(timestamp_col): rows with equal times keep their order
SortByTime(rows) ==
    IF rows = <<>>
    THEN <<>>
    ELSE LET first == CHOOSE i \in 1..Len(rows) :
                          \A j \in 1..Len(rows) :
                              \/ rows[i].published_at < rows[j].published_at
                              \/ rows[i].published_at = rows[j].published_at /\ i <= j
         IN  <<rows[first]>> \o
                 SortByTime(SubSeq(rows, 1, first - 1) \o SubSeq(rows, first + 1, Len(rows)))

\* a split that may hand every row to the training part
SplitIdxMutant(len, train_fraction) ==
    IF (len * train_fraction.num) \div train_fraction.den < 1
    THEN 1 ELSE (len * train_fraction.num) \div train_fraction.den

\* _chronological_split lines 36-37
SplitIdx(len, train_fraction) ==
    Min(IF (len * train_fraction.num) \div train_fraction.den < 1
        THEN 1 ELSE (len * train_fraction.num) \div train_fraction.den,
        len - 1)

\* df.iloc[:idx] and df.iloc[idx:], a negative idx counting from the end
ChronologicalSplit(rows, train_fraction) ==
    LET sorted == SortByTime(SelectSeq(rows, Parseable))
        idx == SplitIdx(Len(sorted), train_fraction)
        cut == IF idx < 0 THEN (IF Len(sorted) + idx < 0 THEN 0 ELSE Len(sorted) + idx)
               ELSE Min(idx, Len(sorted))
    IN  [train |-> SubSeq(sorted, 1, cut), test |-> SubSeq(sorted, cut + 1, Len(sorted))]

\* the orders of n training rows
Rankings(size) ==
    {p \in [1..size -> 1..size] : \A i, j \in 1..size : p[i] = p[j] => i = j}

\* evaluate lines 103-108: relevance of the top_k neighbours of a query row
Relevances(train, row, ranking, k) ==
    [i \in 1..Min(k, Len(train)) |->
        IF train[ranking[i]].primary_category = row.primary_category
           /\ row.primary_category # ""
        THEN 1 ELSE 0]

\* 1000 / log2(idx + 2), idx counted from 0
Discount(idx) ==
    CASE idx = 0 -> 1000
      [] idx = 1 -> 631
      [] idx = 2 -> 500
      [] idx = 3 -> 431
      [] OTHER -> 387

RECURSIVE Dcg(_, _)
\* _dcg: the sum from position idx (counted from 1) on
Dcg(relevances, idx) ==
    IF idx > Len(relevances)
    THEN 0
    ELSE (2 ^ relevances[idx] - 1) * Discount(idx - 1) + Dcg(relevances, idx + 1)

\* sorted(relevances, reverse=True) for relevances of 0 and 1
Ideal(relevances) ==
    LET ones == Cardinality({i \in 1..Len(relevances) : relevances[i] = 1})
    IN  [i \in 1..Len(relevances) |-> IF i <= ones THEN 1 ELSE 0]

\* _ndcg
Ndcg(relevances) ==
    IF relevances = <<>> \/ Dcg(Ideal(relevances), 1) = 0
    THEN Frac(0, 1)
    ELSE Frac(Dcg(relevances, 1), Dcg(Ideal(relevances), 1))

RECURSIVE SumFrac(_)
SumFrac(fracs) ==
    IF fracs = <<>>
    THEN Frac(0, 1)
    ELSE LET rest == SumFrac(Tail(fracs))
         IN  Frac(fracs[1].num * rest.den + rest.num * fracs[1].den, fracs[1].den * rest.den)

\* np.mean
Mean(fracs) == Frac(SumFrac(fracs).num, SumFrac(fracs).den * Len(fracs))

\* _evaluate_group
EvaluateGroup(relevances) ==
    IF relevances = <<>>
    THEN [hit_rate |-> Frac(0, 1), ndcg |-> Frac(0, 1)]
    ELSE [hit_rate |-> Mean([i \in 1..Len(relevances) |->
                                IF \E j \in 1..Len(relevances[i]) : relevances[i][j] = 1
                                THEN Frac(1, 1) ELSE Frac(0, 1)]),
          ndcg |-> Mean([i \in 1..Len(relevances) |-> Ndcg(relevances[i])])]

\* a loop that keeps the rows with a blank abstract as queries
IsQueryMutant(row) == TRUE

\* evaluate lines 98-101: rows with a blank abstract are passed over
IsQuery(row) == ~Blank(row.abstract)

\* evaluate: rankings[i] is the order of the training rows for test row i
Evaluate(table, k, train_fraction, rankings) ==
    IF table = <<>>
    THEN [outcome |-> "ValueError", test |-> <<>>]
    ELSE LET split == ChronologicalSplit(table, train_fraction)
             train == split.train
             test == split.test
         IN  IF \A i \in 1..Len(train) : ~HasTerm(train[i].abstract)
             THEN [outcome |-> "ValueError", test |-> test]
             ELSE LET queries == SelectSeq([i \in 1..Len(test) |-> i],
                                           LAMBDA i : IsQuery(test[i]))
                      rel(i) == Relevances(train, test[i], rankings[i], k)
                      overall == [q \in 1..Len(queries) |-> rel(queries[q])]
                      per(category) ==
                          LET mine == SelectSeq(queries,
                                         LAMBDA i : test[i].primary_category = category)
                          IN  [q \in 1..Len(mine) |-> rel(mine[q])]
                      categories == {test[queries[q]].primary_category : q \in 1..Len(queries)}
                  IN  [outcome |-> "returned", test |-> test,
                       hit_rate |-> EvaluateGroup(overall).hit_rate,
                       ndcg |-> EvaluateGroup(overall).ndcg,
                       by_category |-> [category \in categories |->
                                           EvaluateGroup(per(category))]]

EvaluateCall ==
    /\ fn.op = "none"
    /\ \E table \in EvalTables, k \in EvalKs, train_fraction \in EvalFractions :
         LET split == ChronologicalSplit(table, train_fraction)
         IN  \E rankings \in [1..Len(split.test) -> Rankings(Len(split.train))] :
               fn' = [op |-> "evaluate",
                      args |-> [table |-> table, k |-> k, train_fraction |-> train_fraction],
                      result |-> Evaluate(table, k, train_fraction, rankings)]
    /\ OfflineOnly

EvaluateReturn ==
    /\ fn.op = "evaluate"
    /\ fn' = NoCall
    /\ OfflineOnly

NextEvaluate == EvaluateCall \/ EvaluateReturn

SpecEvaluate == Init /\ [][NextEvaluate]_vars

InUnit(frac) == frac.den > 0 /\ 0 <= frac.num /\ frac.num <= frac.den

\* C26 as claimed: for a table of at least two rows evaluate returns
\* hit_rate and ndcg within [0,1] and a by_category whose keys include the
\* primary category of every row of the test split.
C26_CoversEveryTestCategoryAsClaimed ==
    (fn.op = "evaluate" /\ Len(fn.args.table) >= 2) =>
        /\ fn.result.outcome = "returned"
        /\ InUnit(fn.result.hit_rate)
        /\ InUnit(fn.result.ndcg)
        /\ \A i \in 1..Len(fn.result.test) :
               fn.result.test[i].primary_category \in DOMAIN fn.result.by_category

\* C26 amended: for a table of at least two rows evaluate raises exactly
\* when no training abstract has a term, and otherwise returns hit_rate and
\* ndcg within [0,1], overall and per category, with by_category keyed by
\* exactly the primary categories of the test rows whose abstract is not
\* blank.
C26_CoversCategoriesOfNonBlankQueries ==
    (fn.op = "evaluate" /\ Len(fn.args.table) >= 2) =>
        LET split == ChronologicalSplit(fn.args.table, fn.args.train_fraction)
        IN  /\ split.train # <<>> /\ split.test # <<>>
            /\ fn.result.test = split.test
            /\ fn.result.outcome = "ValueError" <=>
                   \A i \in 1..Len(split.train) : split.train[i].abstract = <<>>
            /\ fn.result.outcome = "returned" =>
                   /\ InUnit(fn.result.hit_rate)
                   /\ InUnit(fn.result.ndcg)
                   /\ DOMAIN fn.result.by_category =
                          {split.test[i].primary_category :
                               i \in {j \in 1..Len(split.test) : split.test[j].abstract # <<>>}}
                   /\ \A category \in DOMAIN fn.result.by_category :
                          /\ InUnit(fn.result.by_category[category].hit_rate)
                          /\ InUnit(fn.result.by_category[category].ndcg)

\* three rows, two of them tested, one with an empty abstract: its category
\* is not reported
C26_Witness ==
    /\ fn.op = "evaluate"
    /\ Len(fn.args.table) = 3
    /\ fn.result.outcome = "returned"
    /\ Len(fn.result.test) = 2
    /\ fn.result.test[1].abstract = <<>>
    /\ fn.result.test[1].primary_category = "cs.CV"
    /\ DOMAIN fn.result.by_category = {"cs.AI"}
    /\ fn.result.hit_rate = Frac(1, 1)

ReadOrder ==
    LET entries == SelectSeq(IterEntries(bucket, BasePrefix(n.snapshot)),
                             LAMBDA e : ~Malformed(e))
    IN  [i \in 1..Len(entries) |-> ParseEntry(entries[i])]

\* C28 as claimed: when several entries share a base identifier and its
\* highest version, the written row carries the fields of the one read
\* last.
C28_TieKeepsLastSeenAsClaimed ==
    n.status = "ok" =>
        \A i \in 1..Len(WrittenRows) :
            LET tied == {j \in 1..Len(ReadOrder) :
                            /\ ReadOrder[j].base_id = WrittenRows[i].base_id
                            /\ ReadOrder[j].version = MaxVersion(WrittenRows[i].base_id)}
                last == CHOOSE j \in tied : \A x \in tied : x <= j
            IN  /\ WrittenRows[i].title = ReadOrder[last].title
                /\ WrittenRows[i].abstract = ReadOrder[last].abstract
                /\ WrittenRows[i].published_at = ReadOrder[last].published_at

\* the order the spec gives to the stages of a request
ClaimedOrder ==
    <<"ReceivedURL", "IdentifierResolved", "MetadataFetched", "Embedded", "VariantRouted",
      "NeighborsFetched", "Logged", "Responded">>

\* the order of search_api.py lines 124-185
HandlerOrder ==
    <<"ReceivedURL", "VariantRouted", "IdentifierResolved", "MetadataFetched", "Embedded",
      "NeighborsFetched", "Logged", "Responded">>

\* stages is a start of order, possibly left for Error
Follows(stages, order) ==
    LET m == IF stages # <<>> /\ stages[Len(stages)] = "Error"
             THEN Len(stages) - 1 ELSE Len(stages)
    IN  m <= Len(order) /\ SubSeq(stages, 1, m) = SubSeq(order, 1, m)

Waiting == sv.pc \in {"resolved", "fetched", "embedded"}

\* C30 as claimed: while a request waits on the feed fetch, the embedding
\* call or the index query, another inbound request can start.
C30_AnotherStartsWhileWaitingAsClaimed ==
    (Waiting /\ Len(sv.handled) < MaxRequests) => ENABLED SearchReceive

(***************************************************************************)
(* The /search handler with requests that may carry a trace header, a      *)
(* process that may have GIT_SHA and IMAGE_DIGEST set, and index answers   *)
(* whose first neighbour has a snapshot, no metadata, or metadata without  *)
(* a snapshot.                                                             *)
(***************************************************************************)
TracedRequests ==
    [url : {<<"https://", "arxiv.org/", "abs/", "1", "v", "2">>},
     ip : {"10.0.0.94", "10.0.0.135"},
     trace : {<<>>, <<"test-request-id">>}]

\* answers with raw distances below 0, within [0,1] and above 1
StampedAnswers ==
    {<<>>,
     <<Neighbor(<<"1">>, 0, [ingest_snapshot |-> <<"a">>]), Neighbor(<<"2">>, 2, NoMetadata)>>,
     <<Neighbor(<<"2">>, 0 - 1, NoMetadata), Neighbor(<<"1">>, 1, [ingest_snapshot |-> <<"a">>])>>,
     <<Neighbor(<<"2">>, 1, [title |-> <<"T5">>]),
       Neighbor(<<"1">>, 2, [ingest_snapshot |-> <<"a">>])>>}

\* os.getenv("GIT_SHA") and os.getenv("IMAGE_DIGEST"), "" when not set
ProvenanceEnvs ==
    {[git_sha |-> "", image_digest |-> ""],
     [git_sha |-> "test-sha", image_digest |-> ""],
     [git_sha |-> "test-sha", image_digest |-> "test-digest"]}

SearchReceiveTraced == SearchReceiveWith(TracedRequests)

SearchQueryStamped == SearchQueryWith(StampedAnswers)

InitProvenance ==
    /\ bucket = EmptyStore
    /\ h = IdleLocals
    /\ n = NoOutcome
    /\ runs = 0
    /\ clock = StartClock
    /\ last_request_ts = 0
    /\ feedlog = <<>>
    /\ ix = IndexIdle
    /\ em = EmbedFresh
    /\ \E b \in {<<>>, <<"deployed-b">>}, env \in ProvenanceEnvs :
           sv = [ServiceDown EXCEPT !.b_deployed_index_id = b, !.git_sha = env.git_sha,
                                    !.image_digest = env.image_digest]
    /\ cfg = ConfigFresh
    /\ fn = NoCall

NextProvenance ==
    \/ ServiceStartup
    \/ SearchReceiveTraced
    \/ SearchResolve
    \/ SearchFetch
    \/ SearchEmbed
    \/ SearchQueryStamped
    \/ SearchLog
    \/ SearchRespond

SpecProvenance == InitProvenance /\ [][NextProvenance]_vars

RECURSIVE UpsertedItems(_)
UpsertedItems(calls) ==
    IF calls = <<>> THEN <<>>
    ELSE (IF calls[1].op = "upsert" THEN calls[1].items ELSE <<>>) \o UpsertedItems(Tail(calls))

\* C32: when index_snapshot completes on a non-empty table, the upserted
\* items taken in call order are the table's rows in table order, each once,
\* each with its row's base identifier and the embedding of its row's
\* abstract; no upsert carries more than BATCH_SIZE items; and the calls
\* come in turns of embed_batch, upsert, get_datapoints, the embedding
\* being of the abstracts of the rows upserted in the same turn.
C32_EveryRowUpsertedOnceInOrder ==
    (ix.pc = "done" /\ ix.rows # <<>>) =>
        LET items == UpsertedItems(ix.calls)
        IN  /\ Len(items) = Len(ix.rows)
            /\ \A i \in 1..Len(items) :
                   /\ items[i].id = ix.rows[i].base_id
                   /\ items[i].vector = Embed(ix.rows[i].abstract)
            /\ Len(ix.calls) % 3 = 0
            /\ \A t \in 0..(Len(ix.calls) \div 3 - 1) :
                   LET e == ix.calls[3 * t + 1]
                       u == ix.calls[3 * t + 2]
                       g == ix.calls[3 * t + 3]
                   IN  /\ e.op = "embed_batch" /\ u.op = "upsert" /\ g.op = "get_datapoints"
                       /\ Len(u.items) \in 1..BATCH_SIZE
                       /\ Len(e.texts) = Len(u.items)
                       /\ \A i \in 1..Len(u.items) :
                              /\ u.items[i].id = ix.rows[t * BATCH_SIZE + i].base_id
                              /\ e.texts[i] = ix.rows[t * BATCH_SIZE + i].abstract
                       /\ g.ids \subseteq {u.items[i].id : i \in 1..Len(u.items)}
                       /\ (t + 1) * BATCH_SIZE < Len(ix.rows) => Len(u.items) = BATCH_SIZE

\* a completed run over a table that needs a full batch and a short one
C32_Witness ==
    /\ ix.pc = "done"
    /\ Len(ix.rows) = BATCH_SIZE + 1
    /\ Len(ix.calls) = 6
    /\ Len(ix.calls[2].items) = BATCH_SIZE
    /\ Len(ix.calls[5].items) = 1

(***************************************************************************)
(* _chronological_split(df, train_fraction) on tables whose rows carry     *)
(* their index label and a publish time that may be unreadable (0).        *)
(***************************************************************************)
MaxSplitRows == 4

SplitTimes == {0, 1, 2}

\* the tables of up to MaxSplitRows rows, row i labelled i
SplitTables ==
    UNION {{[i \in 1..len |-> [label |-> i, published_at |-> times[i]]] :
               times \in [1..len -> SplitTimes]} : len \in 0..MaxSplitRows}

SplitFractions == {Frac(1, 4), Frac(1, 2), Frac(3, 4)}

SplitCall ==
    /\ fn.op = "none"
    /\ \E table \in SplitTables, train_fraction \in SplitFractions :
         fn' = [op |-> "_chronological_split",
                args |-> [table |-> table, train_fraction |-> train_fraction],
                result |-> ChronologicalSplit(table, train_fraction)]
    /\ OfflineOnly

SplitReturn ==
    /\ fn.op = "_chronological_split"
    /\ fn' = NoCall
    /\ OfflineOnly

NextSplit == SplitCall \/ SplitReturn

SpecSplit == Init /\ [][NextSplit]_vars

Labels(rows) == {rows[i].label : i \in 1..Len(rows)}

\* the two parts share no row, hold each row with a readable time once and
\* no other, and no train row is published later than a test row
PartsPartitionInOrder(table, train, test) ==
    /\ Labels(train) \cap Labels(test) = {}
    /\ Labels(train) \cup Labels(test) = {table[i].label : i \in {j \in 1..Len(table) :
                                                              table[j].published_at # 0}}
    /\ Cardinality(Labels(train)) = Len(train)
    /\ Cardinality(Labels(test)) = Len(test)
    /\ \A i \in 1..Len(train) : train[i] = table[train[i].label]
    /\ \A i \in 1..Len(test) : test[i] = table[test[i].label]
    /\ \A i \in 1..Len(train), j \in 1..Len(test) :
           train[i].published_at <= test[j].published_at

\* C33 as claimed: for every non-empty table both parts are non-empty,
\* disjoint, together the rows with a readable publish time, and no train
\* row is published later than a test row.
C33_BothPartsNonEmptyAsClaimed ==
    (fn.op = "_chronological_split" /\ fn.args.table # <<>>) =>
        /\ fn.result.train # <<>>
        /\ fn.result.test # <<>>
        /\ PartsPartitionInOrder(fn.args.table, fn.result.train, fn.result.test)

\* C33 amended: the parts are disjoint, together the rows with a readable
\* publish time, and ordered so that no train row is later than a test
\* row; when at least two rows have a readable time both parts are
\* non-empty and the train part holds the earliest floor(rows *
\* train_fraction) of them, at least one and at most all but one; with
\* fewer readable rows the train part is empty.
C33_BothPartsNonEmptyFromTwoRows ==
    fn.op = "_chronological_split" =>
        LET table == fn.args.table
            train == fn.result.train
            test == fn.result.test
            f == fn.args.train_fraction
            readable == Cardinality({i \in 1..Len(table) : table[i].published_at # 0})
            share == (readable * f.num) \div f.den
        IN  /\ PartsPartitionInOrder(table, train, test)
            /\ readable >= 2 =>
                   /\ train # <<>> /\ test # <<>>
                   /\ Len(train) = IF share < 1 THEN 1 ELSE share
                   /\ Len(train) <= readable - 1
            /\ readable <= 1 => (train = <<>> /\ Len(test) = readable)

\* three rows, the earliest listed last and one unreadable: the earliest of
\* the two readable rows is the train part
C33_Witness ==
    /\ fn.op = "_chronological_split"
    /\ Len(fn.args.table) = 3
    /\ fn.args.table[1].published_at = 2
    /\ fn.args.table[2].published_at = 0
    /\ fn.args.table[3].published_at = 1
    /\ Labels(fn.result.train) = {3}
    /\ Labels(fn.result.test) = {1}

(***************************************************************************)
(* parse_entry on feed entries whose id ends in an identifier of digits,   *)
(* with or without a version suffix, and on an entry without id.           *)
(***************************************************************************)
MaxIdLen == 5

\* digits, optionally followed by v and digits
FeedIdentifiers ==
    {s \in SeqsUpTo({"1", "2", "v"}, MaxIdLen) :
        /\ s # <<>>
        /\ s[1] # "v" /\ s[Len(s)] # "v"
        /\ Cardinality({i \in 1..Len(s) : s[i] = "v"}) <= 1}

FeedEntries ==
    {RawEntry(IdUrl(s), <<"T1">>, <<"x">>, GoodDate, <<>>) : s \in FeedIdentifiers}
        \cup {RawEntry(<<>>, <<"T6">>, <<"x">>, GoodDate, <<>>)}

\* parse_entry: ValueError for an entry without id, else the parsed fields
ParseEntryCall ==
    /\ fn.op = "none"
    /\ \E entry \in FeedEntries :
         fn' = [op |-> "parse_entry", args |-> entry,
                result |-> IF Malformed(entry)
                           THEN [outcome |-> "ValueError"]
                           ELSE [outcome |-> "returned", entry |-> ParseEntry(entry)]]
    /\ OfflineOnly

ParseEntryReturn ==
    /\ fn.op = "parse_entry"
    /\ fn' = NoCall
    /\ OfflineOnly

NextEntry == ParseEntryCall \/ ParseEntryReturn

SpecEntry == Init /\ [][NextEntry]_vars

IsPrefix(short, long) == Len(short) <= Len(long) /\ SubSeq(long, 1, Len(short)) = short

\* C34 as claimed: for every entry parse_entry accepts, the base identifier
\* is shorter than the identifier and equal to its leading characters.
C34_BaseIdStrictPrefixAsClaimed ==
    (fn.op = "parse_entry" /\ fn.result.outcome = "returned") =>
        /\ IsPrefix(fn.result.entry.base_id, fn.result.entry.arxiv_id)
        /\ Len(fn.result.entry.base_id) < Len(fn.result.entry.arxiv_id)

\* C34 amended: for every entry parse_entry accepts, the base identifier is
\* the leading characters of the identifier: shorter than it when the
\* identifier has a version suffix, and the whole identifier when it has
\* none.
C34_BaseIdPrefixStrictWithVersion ==
    (fn.op = "parse_entry" /\ fn.result.outcome = "returned") =>
        LET e == fn.result.entry
            suffixed == \E i \in 1..Len(e.arxiv_id) : e.arxiv_id[i] = "v"
        IN  /\ IsPrefix(e.base_id, e.arxiv_id)
            /\ suffixed => /\ Len(e.base_id) < Len(e.arxiv_id)
                           /\ e.arxiv_id[Len(e.base_id) + 1] = "v"
            /\ ~suffixed => e.base_id = e.arxiv_id

\* an identifier with a two-digit version: the base is what precedes the v
C34_Witness ==
    /\ fn.op = "parse_entry"
    /\ fn.result.outcome = "returned"
    /\ fn.result.entry.arxiv_id = <<"2", "1", "v", "1", "2">>
    /\ fn.result.entry.base_id = <<"2", "1">>
    /\ fn.result.entry.version = 12

\* C35 as claimed: a written row whose entry came without an abs or pdf
\* link carries the default link built from its base identifier, the
\* identifier without its version suffix.
C35_DefaultLinksFromBaseIdAsClaimed ==
    n.status = "ok" =>
        \A i \in 1..Len(WrittenRows) :
            \A p \in WellFormed :
                (p.arxiv_id = WrittenRows[i].arxiv_id /\ p.title = WrittenRows[i].title) =>
                    /\ p.links.abs = <<>> =>
                           WrittenRows[i].link_abs =
                               <<"https://arxiv.org/abs/">> \o WrittenRows[i].base_id
                    /\ p.links.pdf = <<>> =>
                           WrittenRows[i].link_pdf =
                               <<"https://arxiv.org/pdf/">> \o WrittenRows[i].base_id
                                   \o <<".pdf">>

\* search line 185: the body of a 200 response, the index answer passed on
\* as VectorSearchClient.search built it
ResponseBody(url, neighbors) == [query_url |-> url, neighbors |-> neighbors]

\* 1 - distance held within [0,1]
Clamped(distance) ==
    IF 1 - distance < 0 THEN 0 ELSE IF 1 - distance > 1 THEN 1 ELSE 1 - distance

\* C36 as claimed: in a 200 response every neighbour carries a similarity
\* within [0,1] that equals 1 - raw distance clamped to that range.
C36_SimilarityClampedAsClaimed ==
    \A e \in Handled :
        e.status = 200 =>
            LET body == ResponseBody(e.url, e.neighbors)
            IN  \A i \in 1..Len(body.neighbors) :
                    /\ "similarity" \in DOMAIN body.neighbors[i]
                    /\ body.neighbors[i].similarity = Clamped(body.neighbors[i].distance)

(***************************************************************************)
(* harvest against an upstream whose every page request returns. The loop  *)
(* is sequential code: once a request has returned, the next turn runs.    *)
(***************************************************************************)
NextHarvestLive == HarvestStart \/ HarvestPage

SpecHarvestLive == Init /\ [][NextHarvestLive]_vars /\ WF_vars(HarvestPage)

\* C37: a run that is paging reaches its stopping page and ends with its
\* manifest written under its prefix.
C37_HarvestTerminates ==
    (h.pc = "paging") ~>
        (/\ h.pc = "done"
         /\ LastPage(PageOf(h.feed, h.start))
         /\ ManifestBlob(h.base_prefix) \in DOMAIN bucket
         /\ bucket[ManifestBlob(h.base_prefix)] = JsonContent(h.manifest))

\* a run that ended after a full page and the empty page behind it
C37_Witness ==
    /\ h.pc = "done"
    /\ h.requests = 2
    /\ Len(h.feed) = MAX_RESULTS
    /\ h.manifest.count = MAX_RESULTS
    /\ bucket[ManifestBlob(h.base_prefix)] = JsonContent(h.manifest)

\* C38 as claimed: for a snapshot harvested from zero upstream entries
\* (manifest with count 0, no page blob) normalize has written a table
\* with zero rows, and index_snapshot, once called, ends without an
\* embedding, an upsert or a probe call.
C38_EmptyHarvestEndToEndAsClaimed ==
    \A s \in SnapshotIds :
        ( /\ ix.pc # "idle"
          /\ Completed(bucket, s)
          /\ bucket[ManifestBlob(BasePrefix(s))].manifest.count = 0
          /\ XmlBlobs(bucket, BasePrefix(s)) = {} )
        => /\ DefaultOutputBlob(s) \in DOMAIN bucket
           /\ bucket[DefaultOutputBlob(s)].rows = <<>>
           /\ ix.pc = "done"
           /\ ix.calls = <<>>

\* C39: once startup has completed the primary index client exists, and no
\* request handled by the started service ends with the 500 of a missing
\* index client (the only 500 raised before the feed is called), whichever
\* variant it is routed to and whether or not a secondary is configured.
C39_NoClientErrorAfterStartup ==
    sv.phase = "serving" =>
        /\ sv.client_A
        /\ sv.b_deployed_index_id # <<>> => sv.client_B
        /\ \A e \in Handled :
               /\ e.status = 500 => e.feed_calls > 0
               /\ e.user_group = "B" => sv.client_B
               /\ e.index_calls > 0 => e.queried = <<e.user_group>>

\* a started service with a secondary variant that answered one request
\* from variant B and one from variant A
C39_Witness ==
    /\ sv.phase = "serving"
    /\ sv.b_deployed_index_id # <<>>
    /\ Len(sv.handled) = 2
    /\ sv.handled[1].status = 200 /\ sv.handled[1].queried = <<"B">>
    /\ sv.handled[2].status = 200 /\ sv.handled[2].queried = <<"A">>

====
